---- MODULE Spec2Model ----
(***************************************************************************)
(* State-machine model of the relay server of yotamstern/Twitch_Final      *)
(* (src/server.py, class StreamServer; framing from src/protocol_recv.py). *)
(*                                                                         *)
(* Threads of the program and how they appear here:                        *)
(*   - the two Connection Acceptor threads (_connection_loop), one per     *)
(*     media kind; each runs handle_incoming_connection, and through it    *)
(*     _assign_client_role/_setup_host/_setup_viewer, synchronously, so    *)
(*     an acceptor handles one connection at a time (variable acc);        *)
(*   - the relay threads (broadcast_media), two per successful HOST        *)
(*     negotiation, keyed by the host socket they read (variable relay);   *)
(*   - the main thread, which sits in start() until Ctrl+C and then runs   *)
(*     shutdown() (variable main).                                         *)
(* A block "with self.stream_lock:" is one atomic action guarded by the    *)
(* lock being free.  The only place the lock is held across a blocking     *)
(* call is shutdown(), which calls cleanup_stream with the lock held;      *)
(* stream_lock names the holder from then on.                              *)
(*                                                                         *)
(* server_running only ever changes from True to False.  A loop test       *)
(* "while self.server_running" that would read False at the end of the     *)
(* previous iteration reads False whenever it is taken, so it is taken     *)
(* with that iteration's last step; one that would read True there is left *)
(* open: the thread stands at its blocking call ("accept", "recv") and may *)
(* still leave the loop once the flag has gone False (the test was taken   *)
(* late) or go on with the call (the test was taken early).                *)
(*                                                                         *)
(* The login server (src/login_server.py) is a separate process with its   *)
(* own state (active_users, active_users_lock, handlers); it is modelled   *)
(* at the end of the module and followed only in SpecLogin.                *)
(***************************************************************************)
EXTENDS Integers, Sequences, FiniteSets, TLC

(***************************************************************************)
(* Bounds of the model                                                     *)
(***************************************************************************)
\* clients; each opens at most one connection of each kind
MaxClients == 3
\* connections the two acceptors together accept
MaxConns == 3
\* media frames all hosts together send
MaxFrames == 2
\* connections in a stream that their peer closes or resets
MaxFaults == 1

\* The longest payload of a frame followed byte by byte.
MaxPayload == 2
\* connections the login server accepts, one ClientHandler thread each
MaxHandlers == 3

(***************************************************************************)
(* Program constants                                                       *)
(***************************************************************************)
\* sock.recv(36); len(client_id) != 36
IdLen == 36
\* client_id[:8]
IdPrefixLen == 8

Kinds == {"video", "audio"}

OtherKind(k) == IF k = "video" THEN "audio" ELSE "video"

\* Python's None for a socket, a dict reference, a client id, a stream id.
None == <<>>

\* A socket: the connection of kind k that client c opens.
Sock(k, c) == <<k, c>>

KindOf(s) == s[1]

ClientOf(s) == s[2]

Clients == 1..MaxClients

Socks == {Sock(k, c) : k \in Kinds, c \in Clients}

(***************************************************************************)
(* Client identifiers: 36 characters, as sequences of one-character        *)
(* strings.  IdA and IdB differ only after the 8th character; IdC differs  *)
(* in the first 8.                                                         *)
(***************************************************************************)
Rep(c, n) == [i \in 1..n |-> c]

UuidText(a, b) ==
    Rep(a, 8) \o <<"-">> \o Rep(b, 4) \o <<"-">> \o Rep(b, 4) \o <<"-">>
              \o Rep(b, 4) \o <<"-">> \o Rep(b, 12)

IdA == UuidText("1", "1")
IdB == UuidText("1", "2")
IdC == UuidText("3", "3")

ClientIds == {IdA, IdB, IdC}

\* What sock.recv(36).decode() can return: a full identifier, nothing (peer
\* closed), or fewer than 36 characters.
IdentifyData == ClientIds \cup {<<>>, SubSeq(IdA, 1, IdLen - 1)}

\* A validity test that lets a missing identifier through.
IsValidIdOrMissing(data) == Len(data) \in {0, IdLen}

\* A validity test that only rejects the empty string.
IsValidIdNonEmpty(data) == data # <<>>

\* "not client_id or len(client_id) != 36" is false.
IsValidId(data) == data # <<>> /\ Len(data) = IdLen

\* f"stream_{client_id[:8]}"
StreamPrefix == <<"s", "t", "r", "e", "a", "m", "_">>

\* A stream id that keeps the whole identifier.
StreamIdWhole(client_id) == StreamPrefix \o client_id

StreamIdOf(client_id) == StreamPrefix \o SubSeq(client_id, 1, IdPrefixLen)

\* The stream ids a VIEWER handshake may name; None is a handshake without
\* the stream_id key (intent_data.get("stream_id") is None).
RequestSids == {StreamIdOf(i) : i \in ClientIds} \cup {None}

\* The payload of the n-th frame a host sends on its connection s, as byte
\* values.  The server never looks into a payload, only at its length and at
\* whether receive_data returned one at all, so what hosts send is fixed:
\* every other audio frame is the zero-length frame, every other frame two
\* bytes that tell the frames of all connections apart.
HostFrame(s, n) ==
    IF s[1] = "audio" /\ n % 2 = 1 THEN <<>> ELSE <<s[2], n>>

\* The main thread's name among the threads that call cleanup_stream.
MainThread == <<"main">>

VARIABLES
    server_running,  \* self.server_running
    stream_lock,     \* holder of self.stream_lock across actions, or None
    pending_pairs,   \* self.pending_pairs: client id -> reference to a dict
    pairObj,         \* the dicts pending_pairs refers to, by reference
    active_streams,  \* self.active_streams: stream id -> Stream record
    acc,             \* the acceptor threads' position and locals, per kind
    relay,           \* the relay threads' position and locals, per host socket
    main,            \* the main thread's position and locals
    rx,              \* one socket's byte stream and the receive_data call on it
    accepted,        \* sockets accept() has returned
    sentId,          \* per client, the identifier it sends on its connections
    inserted,        \* sockets that were stored in pending_pairs
    closed,          \* sockets the server has closed
    peerDown,        \* sockets whose peer has closed or reset the connection
    wrote,           \* per socket, what the server has written to it, in order
    hostSent,        \* per socket, the frames receive_data returned from it
    assignCalls,     \* per client id, the invocations of _assign_client_role
    active_users,    \* login server: the set active_users
    active_users_lock, \* login server: holder of active_users_lock, or None
    handlers         \* login server: the ClientHandler threads

vars == <<server_running, stream_lock, pending_pairs, pairObj, active_streams,
          acc, relay, main, accepted, sentId, inserted, closed, peerDown,
          wrote, hostSent, assignCalls, rx, active_users,
          active_users_lock, handlers>>

\* The state of the login server (src/login_server.py), a separate process.
loginVars == <<active_users, active_users_lock, handlers>>

(***************************************************************************)
(* Helpers on partial maps (Python dicts)                                  *)
(***************************************************************************)
EmptyMap == [x \in {} |-> None]

Put(d, key, v) == [x \in DOMAIN d \cup {key} |-> IF x = key THEN v ELSE d[x]]

Del(d, key) == [x \in DOMAIN d \ {key} |-> d[x]]

\* An acceptor between two connections.
AccIdle(p) ==
    [pc |-> p, sock |-> None, client_id |-> None, pair |-> None,
     video_sock |-> None, audio_sock |-> None, stream_id |-> None,
     response |-> None]

\* Dict objects no thread and no pending entry refers to any more are dropped.
Collect(objs, pend, a) ==
    LET live == {pend[i] : i \in DOMAIN pend} \cup {a[k].pair : k \in Kinds}
    IN  [o \in DOMAIN objs \cap live |-> objs[o]]

(***************************************************************************)
(* Messages the server writes to a client                                  *)
(***************************************************************************)
\* len(bytes).to_bytes(4, 'big') + json.dumps(reply): a handshake reply.
Reply(status, stream_id, message) ==
    [type |-> "reply", status |-> status, stream_id |-> stream_id,
     message |-> message, size |-> 0, payload |-> None, src |-> None,
     seq |-> 0]

\* struct.pack("I", packet_size) + data_payload: a relayed media frame.  src
\* and seq record which host socket it was read from and as which read.
FrameMsg(size, payload, src, seq) ==
    [type |-> "frame", status |-> "", stream_id |-> None, message |-> "",
     size |-> size, payload |-> payload, src |-> src, seq |-> seq]

\* sendall on s can succeed: the server has not closed s and the peer was not
\* found gone before.
CanWrite(s) == s \notin closed /\ s \notin peerDown

\* recv on s can yield data, likewise.
CanRead(s) == s \notin closed /\ s \notin peerDown

\* The peer of a connection closes or resets it on its own.  The server
\* learns of it only through a recv or sendall on the socket, so the peer's
\* step is taken together with the first call that meets it.
CanFail(lost) ==
    /\ \A s \in lost : CanWrite(s)
    /\ Cardinality(peerDown \cup lost) <= MaxFaults

\* peerDown after a call on s that raised: the peer went unless the socket
\* could not be used anyway.
Failing(s) == IF CanWrite(s) THEN peerDown \cup {s} ELSE peerDown

\* The ClientHandler threads of the login server, in the order accept()
\* returned their connections.
Handlers == 1..MaxHandlers

\* A ClientHandler whose connection has not been accepted yet.
HandlerNew ==
    [pc |-> "new", action |-> "", username |-> "", response |-> <<>>]

\* The login server is not followed: it is followed only in SpecLogin.
NoLogin ==
    /\ active_users = {}
    /\ active_users_lock = None
    /\ handlers = [h \in Handlers |-> HandlerNew]

\* No byte stream is followed: receive_data is followed byte by byte
\* only in SpecRecv.
RxIdle == [pc |-> "idle"]

Init ==
    /\ server_running = TRUE
    /\ stream_lock = None
    /\ pending_pairs = EmptyMap
    /\ pairObj = EmptyMap
    /\ active_streams = EmptyMap
    /\ acc = [k \in Kinds |-> AccIdle("accept")]
    /\ relay = EmptyMap
    /\ main = [pc |-> "serving", todo |-> {}, stream_id |-> None]
    /\ accepted = {}
    /\ sentId = [c \in Clients |-> None]
    /\ inserted = {}
    /\ closed = {}
    /\ peerDown = {}
    /\ wrote = [s \in Socks |-> <<>>]
    /\ hostSent = [s \in Socks |-> <<>>]
    /\ assignCalls = [i \in ClientIds |-> 0]
    /\ rx = RxIdle
    /\ NoLogin

(***************************************************************************)
(* Connection Acceptor and pairing: _connection_loop and                   *)
(* handle_incoming_connection                                              *)
(***************************************************************************)
\* Where an acceptor stands after handle_incoming_connection returns: at
\* accept() again, or out of its loop when the flag is already False.
Return(a, k) ==
    [a EXCEPT ![k] = AccIdle(IF server_running THEN "accept" ELSE "exited")]

\* "while self.server_running:" read as False by an acceptor that was idle
\* when the flag changed.
AcceptorExit(k) ==
    /\ UNCHANGED <<rx, loginVars>>
    /\ acc[k].pc = "accept"
    /\ ~server_running
    /\ acc' = [acc EXCEPT ![k].pc = "exited"]
    /\ UNCHANGED <<server_running, stream_lock, pending_pairs, pairObj,
                   active_streams, relay, main, accepted, sentId, inserted,
                   closed, peerDown, wrote, hostSent, assignCalls>>

\* The connections that can arrive next on the listener of kind k.  Clients
\* are numbered in the order their video connections arrive; audio
\* connections arrive in any order.
Arrivals(k) ==
    {c \in Clients :
        /\ Cardinality(accepted) < MaxConns
        /\ Sock(k, c) \notin accepted
        /\ k = "video" => \A d \in 1..(c - 1) : Sock(k, d) \in accepted}

\* The identifiers client c can send: the one it sent on its other
\* connection, if any (host_streamer.py and viewer_logic.py send one uuid on
\* both), else any.  Client 1 sends IdA: which identifier comes first makes
\* no difference, only whether a later one equals it, shares its first 8
\* characters, or neither.
IdsOf(c) ==
    IF sentId[c] # None THEN {sentId[c]}
    ELSE IF c = 1 THEN {IdA} ELSE ClientIds

\* with self.stream_lock:
\*     self.pending_pairs.setdefault(client_id, {})[sock_type] = sock
\*     pair = self.pending_pairs[client_id]
\* The dict is named by the socket that created it; the result is the new
\* pending_pairs and the new dicts.
SetDefault(pend, objs, client_id, k, sock) ==
    LET ref == IF client_id \in DOMAIN pend THEN pend[client_id] ELSE sock
        old == IF client_id \in DOMAIN pend
               THEN objs[ref] ELSE [video |-> None, audio |-> None]
    IN  [pending |-> Put(pend, client_id, ref),
         objs |-> Put(objs, ref, [old EXCEPT ![k] = sock]),
         pair |-> ref]

\* sock.accept() returns client c's connection and handle_incoming_connection
\* runs up to the end of its first locked block: recv(36), the validity test,
\* the insertion into pending_pairs.  raised stands for socket.timeout, a
\* ConnectionError or a UnicodeDecodeError; each ends in sock.close(), as an
\* invalid identifier does.  pair is a reference to the dict stored in
\* pending_pairs, not a copy.
Accept(k) ==
    /\ UNCHANGED <<rx, loginVars>>
    /\ acc[k].pc = "accept"
    /\ \E c \in Arrivals(k), raised \in BOOLEAN, data \in IdentifyData :
         LET sock == Sock(k, c)
             ins == SetDefault(pending_pairs, pairObj, data, k, sock)
         IN
         /\ data \in ClientIds => data \in IdsOf(c)
         /\ accepted' = accepted \cup {sock}
         /\ IF raised \/ ~IsValidId(data)
            THEN /\ closed' = closed \cup {sock}
                 /\ acc' = Return(acc, k)
                 /\ UNCHANGED <<sentId, inserted, pending_pairs, pairObj>>
            ELSE /\ sentId' = [sentId EXCEPT ![c] = data]
                 /\ UNCHANGED closed
                 /\ IF stream_lock # None
                    THEN /\ acc' = [acc EXCEPT ![k].pc = "blocked",
                                               ![k].sock = sock,
                                               ![k].client_id = data]
                         /\ UNCHANGED <<inserted, pending_pairs, pairObj>>
                    ELSE /\ pending_pairs' = ins.pending
                         /\ pairObj' = ins.objs
                         /\ inserted' = inserted \cup {sock}
                         /\ acc' = [acc EXCEPT ![k].pc = "check",
                                               ![k].sock = sock,
                                               ![k].client_id = data,
                                               ![k].pair = ins.pair]
    /\ UNCHANGED <<server_running, stream_lock, active_streams, relay, main,
                   peerDown, wrote, hostSent, assignCalls>>

\* A pairing test that is satisfied by one kind alone.
PairCompleteEither(pair) == pair.video # None \/ pair.audio # None

\* if "video" in pair and "audio" in pair:   (read outside the lock)
PairComplete(pair) == pair.video # None /\ pair.audio # None

CheckPair(k) ==
    /\ UNCHANGED <<rx, loginVars>>
    /\ acc[k].pc = "check"
    /\ LET a2 == IF PairComplete(pairObj[acc[k].pair])
                 THEN [acc EXCEPT ![k].pc = "pop"]
                 ELSE Return(acc, k)
       IN  /\ acc' = a2
           /\ pairObj' = Collect(pairObj, pending_pairs, a2)
    /\ UNCHANGED <<server_running, stream_lock, pending_pairs, active_streams,
                   relay, main, accepted, sentId, inserted, closed, peerDown,
                   wrote, hostSent, assignCalls>>

\* self.pending_pairs.pop(client_id) raises KeyError when the entry is gone.
PopRaises(pend, client_id) == client_id \notin DOMAIN pend

\* with self.stream_lock: paired_client = self.pending_pairs.pop(client_id)
\* self._assign_client_role(client_id, paired_client), up to its first two
\* lines (client_sockets["video"], client_sockets["audio"]), which are
\* outside its try block.  A KeyError from pop or from these lookups lands in
\* handle_incoming_connection's "except Exception", which closes this
\* thread's own socket.
PopPair(k) ==
    /\ UNCHANGED <<rx, loginVars>>
    /\ acc[k].pc = "pop"
    /\ stream_lock = None
    /\ LET client_id == acc[k].client_id IN
       IF PopRaises(pending_pairs, client_id)
       THEN /\ closed' = closed \cup {acc[k].sock}
            /\ acc' = Return(acc, k)
            /\ pairObj' = Collect(pairObj, pending_pairs, acc')
            /\ UNCHANGED <<pending_pairs, assignCalls>>
       ELSE LET paired_client == pairObj[pending_pairs[client_id]]
                a2 == IF PairComplete(paired_client)
                      THEN [acc EXCEPT
                              ![k].pc = "negotiate",
                              ![k].pair = None,
                              ![k].video_sock = paired_client.video,
                              ![k].audio_sock = paired_client.audio]
                      ELSE Return(acc, k)
            IN  /\ pending_pairs' = Del(pending_pairs, client_id)
                /\ assignCalls' = [assignCalls EXCEPT ![client_id] = @ + 1]
                /\ closed' = IF PairComplete(paired_client)
                             THEN closed ELSE closed \cup {acc[k].sock}
                /\ acc' = a2
                /\ pairObj' = Collect(pairObj, pending_pairs', a2)
    /\ UNCHANGED <<server_running, stream_lock, active_streams, relay, main,
                   accepted, sentId, inserted, peerDown, wrote, hostSent>>

(***************************************************************************)
(* Role Negotiator: _assign_client_role, _setup_host, _setup_viewer        *)
(***************************************************************************)
\* What the two recv calls and json.loads yield: a parsed intent, or a fault
\* (recv timed out; the bytes are no JSON object; recv raised OSError because
\* the peer reset the connection or another thread closed the socket).
Intent(action, stream_id) ==
    [fault |-> "", action |-> action, stream_id |-> stream_id]

Fault(f) == [fault |-> f, action |-> "", stream_id |-> None]

Handshakes ==
    {Intent("HOST", None), Intent("OTHER", None)}
        \cup {Intent("VIEWER", sid) : sid \in RequestSids}
        \cup {Fault("timeout"), Fault("malformed"), Fault("ioerror")}

\* The sockets the except branch of _assign_client_role closes.  It logs,
\* closes both sockets of the pair and writes no reply.
RoleAssignmentFailed(video_sock, audio_sock) == {video_sock, audio_sock}

\* The Stream record _setup_host stores.
NewStream(client_id, video_sock, audio_sock) ==
    [host |-> [id |-> client_id, video |-> video_sock, audio |-> audio_sock],
     viewers |-> EmptyMap]

\* with self.stream_lock: self.active_streams[stream_id] = {...}
RegisterStream(streams, stream_id, stream) == Put(streams, stream_id, stream)

\* The locked block of _setup_viewer: the new active_streams and the reply.
AddViewer(streams, stream_id, client_id, video_sock, audio_sock) ==
    IF stream_id \notin DOMAIN streams
    THEN [streams |-> streams, response |-> "ERROR"]
    ELSE [streams |->
            [streams EXCEPT ![stream_id].viewers =
               Put(@, client_id,
                   [video |-> video_sock, audio |-> audio_sock])],
          response |-> "VIEWER_OK"]

\* _assign_client_role from its try block on: the handshake is read from the
\* video socket and the action dispatched, up to the end of the locked block
\* of _setup_host or _setup_viewer.
Negotiate(k) ==
    /\ UNCHANGED <<rx, loginVars>>
    /\ acc[k].pc = "negotiate"
    /\ \E h \in Handshakes :
         /\ ~CanRead(acc[k].video_sock) => h.fault = "ioerror"
         /\ h.fault = "ioerror" /\ CanRead(acc[k].video_sock)
                => CanFail({acc[k].video_sock})
         /\ peerDown' = IF h.fault = "ioerror"
                         THEN Failing(acc[k].video_sock) ELSE peerDown
         /\ IF h.fault # "" \/ h.action \notin {"HOST", "VIEWER"}
            THEN /\ closed' = closed \cup
                       RoleAssignmentFailed(acc[k].video_sock,
                                            acc[k].audio_sock)
                 /\ acc' = Return(acc, k)
                 /\ UNCHANGED active_streams
            ELSE IF stream_lock # None
            THEN /\ acc' = [acc EXCEPT ![k].pc = "blocked"]
                 /\ UNCHANGED <<active_streams, closed>>
            ELSE IF h.action = "HOST"
            THEN LET stream_id == StreamIdOf(acc[k].client_id) IN
                 /\ active_streams' =
                      RegisterStream(active_streams, stream_id,
                                     NewStream(acc[k].client_id,
                                               acc[k].video_sock,
                                               acc[k].audio_sock))
                 /\ acc' = [acc EXCEPT ![k].pc = "host_reply",
                                       ![k].stream_id = stream_id]
                 /\ UNCHANGED closed
            ELSE LET v == AddViewer(active_streams, h.stream_id,
                                    acc[k].client_id, acc[k].video_sock,
                                    acc[k].audio_sock) IN
                 /\ active_streams' = v.streams
                 /\ acc' = [acc EXCEPT ![k].pc = "viewer_reply",
                                       ![k].stream_id = h.stream_id,
                                       ![k].response = v.response]
                 /\ UNCHANGED closed
    /\ UNCHANGED <<server_running, stream_lock, pending_pairs, pairObj, relay,
                   main, accepted, sentId, inserted, wrote, hostSent,
                   assignCalls>>

\* A relay thread just started by _setup_host.
NewRelay(stream_id) ==
    [pc |-> IF server_running THEN "recv" ELSE "cleanup",
     stream_id |-> stream_id, viewers_to_remove |-> {}]

\* video_sock.sendall(HOST_OK) and the two Thread(...).start() calls.  When
\* sendall raises, the exception leaves _setup_host and is caught in
\* _assign_client_role: both sockets are closed, no thread is started, and
\* the entry made in active_streams stays.
HostReply(k) ==
    /\ UNCHANGED <<rx, loginVars>>
    /\ acc[k].pc = "host_reply"
    /\ \E raised \in BOOLEAN :
     /\ ~CanWrite(acc[k].video_sock) => raised
     /\ raised /\ CanWrite(acc[k].video_sock) => CanFail({acc[k].video_sock})
     /\ peerDown' = IF raised THEN Failing(acc[k].video_sock) ELSE peerDown
     /\ IF ~raised
       THEN /\ wrote' = [wrote EXCEPT ![acc[k].video_sock] =
                           Append(@, Reply("HOST_OK", acc[k].stream_id, ""))]
            /\ relay' = Put(Put(relay, acc[k].video_sock,
                                NewRelay(acc[k].stream_id)),
                            acc[k].audio_sock, NewRelay(acc[k].stream_id))
            /\ UNCHANGED closed
       ELSE /\ closed' = closed \cup
                  RoleAssignmentFailed(acc[k].video_sock, acc[k].audio_sock)
            /\ UNCHANGED <<wrote, relay>>
    /\ acc' = Return(acc, k)
    /\ UNCHANGED <<server_running, stream_lock, pending_pairs, pairObj,
                   active_streams, main, accepted, sentId, inserted, hostSent,
                   assignCalls>>

\* video_sock.sendall(response); on ERROR both sockets are closed.  When
\* sendall raises, _assign_client_role's except branch closes both.
ViewerReply(k) ==
    /\ UNCHANGED <<rx, loginVars>>
    /\ acc[k].pc = "viewer_reply"
    /\ \E raised \in BOOLEAN :
     /\ ~CanWrite(acc[k].video_sock) => raised
     /\ raised /\ CanWrite(acc[k].video_sock) => CanFail({acc[k].video_sock})
     /\ peerDown' = IF raised THEN Failing(acc[k].video_sock) ELSE peerDown
     /\ IF ~raised
       THEN /\ wrote' = [wrote EXCEPT ![acc[k].video_sock] =
                           Append(@, Reply(acc[k].response, None,
                                           IF acc[k].response = "ERROR"
                                           THEN "Stream not found" ELSE ""))]
            /\ closed' = IF acc[k].response = "ERROR"
                         THEN closed \cup {acc[k].video_sock,
                                           acc[k].audio_sock}
                         ELSE closed
       ELSE /\ closed' = closed \cup
                  RoleAssignmentFailed(acc[k].video_sock, acc[k].audio_sock)
            /\ UNCHANGED wrote
    /\ acc' = Return(acc, k)
    /\ UNCHANGED <<server_running, stream_lock, pending_pairs, pairObj,
                   active_streams, relay, main, accepted, sentId, inserted,
                   hostSent, assignCalls>>

(***************************************************************************)
(* Broadcast Relay: broadcast_media, _remove_viewers, cleanup_stream       *)
(***************************************************************************)
RECURSIVE SumLen(_, _)
SumLen(f, S) ==
    IF S = {} THEN 0
    ELSE LET s == CHOOSE x \in S : TRUE IN Len(f[s]) + SumLen(f, S \ {s})

\* Frames read from all host sockets so far.
FramesRead == SumLen(hostSent, Socks)

\* A loop that never tests the flag.
LoopForever == "recv"

\* Where a relay stands after an iteration of its loop.
LoopTop == IF server_running THEN "recv" ELSE "cleanup"

\* "while self.server_running:" read as False by a relay that was waiting
\* for a frame when the flag changed.
RelayExit(r) ==
    /\ UNCHANGED <<rx, loginVars>>
    /\ relay[r].pc = "recv"
    /\ ~server_running
    /\ relay' = [relay EXCEPT ![r].pc = "cleanup"]
    /\ UNCHANGED <<server_running, stream_lock, pending_pairs, pairObj,
                   active_streams, acc, main, accepted, sentId, inserted,
                   closed, peerDown, wrote, hostSent, assignCalls>>

\* The viewers whose sendall raises in a pass over `viewers` on kind k, when
\* the sockets in down are closed or their peers gone.
FailedViewers(viewers, k, down) ==
    {vid \in DOMAIN viewers : viewers[vid][k] \in down}

\* A write pass that is given up at the first sendall that raises: when some
\* viewer fails, no viewer gets the frame.
FanOutAbort(w, viewers, k, down, frame) ==
    [s \in Socks |->
       IF /\ FailedViewers(viewers, k, down) = {}
          /\ \E vid \in DOMAIN viewers : viewers[vid][k] = s
       THEN Append(w[s], frame) ELSE w[s]]

\* The write pass: every viewer's socket of kind k whose sendall does not
\* raise has the frame appended; the pass goes on after a sendall that raises.
FanOut(w, viewers, k, down, frame) ==
    [s \in Socks |->
       IF \E vid \in DOMAIN viewers \ FailedViewers(viewers, k, down) :
              viewers[vid][k] = s
       THEN Append(w[s], frame) ELSE w[s]]

\* The sockets of kind k a pass over the viewers of stream_id writes to.
PassSocks(stream_id, k) ==
    IF stream_id \in DOMAIN active_streams /\ stream_lock = None
    THEN {active_streams[stream_id].viewers[vid][k] :
             vid \in DOMAIN active_streams[stream_id].viewers}
    ELSE {}

\* One iteration of broadcast_media's loop up to the end of its locked block.
\* receive_data(host_socket) returns (0, None) when the socket is closed, the
\* peer is gone or the header comes short, and the loop is left; otherwise it
\* returns the host's next frame, and under the lock the stream is looked up
\* (absent: break) and the frame written to every viewer's socket of this
\* kind.  lost are the viewers' connections found gone in this pass.
RelayRecv(r) ==
    /\ UNCHANGED <<rx, loginVars>>
    /\ relay[r].pc = "recv"
    /\ \E gone \in BOOLEAN :
     /\ ~CanRead(r) => gone
     /\ IF gone
       THEN /\ CanRead(r) => CanFail({r})
            /\ peerDown' = Failing(r)
            /\ relay' = [relay EXCEPT ![r].pc = "cleanup"]
            /\ UNCHANGED <<hostSent, wrote>>
       ELSE /\ FramesRead < MaxFrames
            /\ \E lost \in SUBSET PassSocks(relay[r].stream_id, KindOf(r)) :
                 LET data == HostFrame(r, Len(hostSent[r]) + 1)
                     packet_size == Len(data)
                     stream_id == relay[r].stream_id
                     k == KindOf(r)
                 IN
                 /\ CanFail(lost)
                 /\ peerDown' = peerDown \cup lost
                 /\ hostSent' = [hostSent EXCEPT ![r] =
                       Append(@, [size |-> packet_size, payload |-> data])]
                 /\ IF stream_lock # None
                    THEN /\ relay' = [relay EXCEPT ![r].pc = "blocked"]
                         /\ UNCHANGED wrote
                    ELSE IF stream_id \notin DOMAIN active_streams
                    THEN /\ relay' = [relay EXCEPT ![r].pc = "cleanup"]
                         /\ UNCHANGED wrote
                    ELSE LET viewers == active_streams[stream_id].viewers
                             down == closed \cup peerDown'
                             failed == FailedViewers(viewers, k, down)
                         IN  /\ wrote' =
                                  FanOut(wrote, viewers, k, down,
                                         FrameMsg(packet_size, data, r,
                                                  Len(hostSent[r]) + 1))
                             /\ relay' = [relay EXCEPT
                                  ![r].viewers_to_remove = failed,
                                  ![r].pc = IF failed # {} THEN "remove"
                                            ELSE LoopTop]
    /\ UNCHANGED <<server_running, stream_lock, pending_pairs, pairObj,
                   active_streams, acc, main, accepted, sentId, inserted,
                   closed, assignCalls>>

\* A removal that leaves every viewer where it is.
KeepViewers(streams, stream_id, viewer_ids) == streams

\* A removal that empties the viewer map of the stream.
ClearViewers(streams, stream_id, viewer_ids) ==
    IF stream_id \in DOMAIN streams
    THEN [streams EXCEPT ![stream_id].viewers = EmptyMap]
    ELSE streams

\* _remove_viewers(stream_id, viewer_ids), under the lock.
RemoveViewers(streams, stream_id, viewer_ids) ==
    IF stream_id \in DOMAIN streams
    THEN [streams EXCEPT ![stream_id].viewers =
            [vid \in DOMAIN @ \ viewer_ids |-> @[vid]]]
    ELSE streams

\* _remove_viewers without its "with self.stream_lock:".
RelayRemoveUnlocked(r) ==
    /\ UNCHANGED <<rx, loginVars>>
    /\ relay[r].pc = "remove"
    /\ active_streams' = RemoveViewers(active_streams, relay[r].stream_id,
                                       relay[r].viewers_to_remove)
    /\ relay' = [relay EXCEPT ![r].pc = LoopTop, ![r].viewers_to_remove = {}]
    /\ UNCHANGED <<server_running, stream_lock, pending_pairs, pairObj, acc,
                   main, accepted, sentId, inserted, closed, peerDown, wrote,
                   hostSent, assignCalls>>

\* if viewers_to_remove: self._remove_viewers(stream_id, viewers_to_remove)
RelayRemove(r) ==
    /\ UNCHANGED <<rx, loginVars>>
    /\ relay[r].pc = "remove"
    /\ stream_lock = None
    /\ active_streams' = RemoveViewers(active_streams, relay[r].stream_id,
                                       relay[r].viewers_to_remove)
    /\ relay' = [relay EXCEPT ![r].pc = LoopTop, ![r].viewers_to_remove = {}]
    /\ UNCHANGED <<server_running, stream_lock, pending_pairs, pairObj, acc,
                   main, accepted, sentId, inserted, closed, peerDown, wrote,
                   hostSent, assignCalls>>

\* The sockets cleanup_stream closes for a popped Stream record: the host's
\* two and every viewer's two.
StreamSocks(stream) ==
    {stream.host.video, stream.host.audio}
        \cup {stream.viewers[vid][k] : vid \in DOMAIN stream.viewers,
                                       k \in Kinds}

\* The new active_streams and closed sockets after the body of cleanup_stream.
Cleanup(streams, cl, stream_id) ==
    IF stream_id \in DOMAIN streams
    THEN [streams |-> Del(streams, stream_id),
          closed |-> cl \cup StreamSocks(streams[stream_id])]
    ELSE [streams |-> streams, closed |-> cl]

\* The threads that call cleanup_stream, and where each stands.
Threads == DOMAIN relay \cup {MainThread}

PcOf(t) == IF t = MainThread THEN main.pc ELSE relay[t].pc

StreamIdAt(t) == IF t = MainThread THEN main.stream_id ELSE relay[t].stream_id

\* cleanup_stream(stream_id).  Its "with self.stream_lock:" needs the lock
\* free, also when the caller is shutdown(), which holds it: threading.Lock
\* is not reentrant.  A relay thread ends after the call; shutdown() goes on
\* with its loop and leaves its own with block after the last stream.
CleanupStream(t) ==
    /\ UNCHANGED <<rx, loginVars>>
    /\ PcOf(t) = "cleanup"
    /\ stream_lock = None
    /\ LET c == Cleanup(active_streams, closed, StreamIdAt(t)) IN
       /\ active_streams' = c.streams
       /\ closed' = c.closed
    /\ IF t = MainThread
       THEN /\ main' = IF main.todo = {}
                       THEN [main EXCEPT !.pc = "returned",
                                         !.stream_id = None]
                       ELSE LET next == CHOOSE sid \in main.todo : TRUE
                            IN  [main EXCEPT !.stream_id = next,
                                             !.todo = @ \ {next}]
            /\ UNCHANGED relay
       ELSE /\ relay' = [relay EXCEPT ![t].pc = "done"]
            /\ UNCHANGED main
    /\ UNCHANGED <<server_running, stream_lock, pending_pairs, pairObj, acc,
                   accepted, sentId, inserted, peerDown, wrote, hostSent,
                   assignCalls>>

(***************************************************************************)
(* Main thread: start() waiting, then shutdown()                           *)
(***************************************************************************)
\* KeyboardInterrupt ends the wait in start(); shutdown() begins with
\* self.server_running = False.
ShutdownBegin ==
    /\ UNCHANGED <<rx, loginVars>>
    /\ main.pc = "serving"
    /\ server_running' = FALSE
    /\ main' = [main EXCEPT !.pc = "shutdown_lock"]
    /\ UNCHANGED <<stream_lock, pending_pairs, pairObj, active_streams, acc,
                   relay, accepted, sentId, inserted, closed, peerDown, wrote,
                   hostSent, assignCalls>>

\* "with self.stream_lock:" in shutdown(), list(self.active_streams.keys())
\* and the start of the for loop.  With no stream the with block is left at
\* once and shutdown() returns; otherwise cleanup_stream is called for the
\* first stream id with the lock held.
ShutdownLock ==
    /\ UNCHANGED <<rx, loginVars>>
    /\ main.pc = "shutdown_lock"
    /\ stream_lock = None
    /\ IF DOMAIN active_streams = {}
       THEN /\ main' = [main EXCEPT !.pc = "returned"]
            /\ UNCHANGED stream_lock
       ELSE /\ stream_lock' = MainThread
            /\ \E stream_id \in DOMAIN active_streams :
                 main' = [main EXCEPT
                            !.pc = "cleanup",
                            !.stream_id = stream_id,
                            !.todo = DOMAIN active_streams \ {stream_id}]
    /\ UNCHANGED <<server_running, pending_pairs, pairObj, active_streams,
                   acc, relay, accepted, sentId, inserted, closed, peerDown,
                   wrote, hostSent, assignCalls>>

Next ==
    \/ \E k \in Kinds : AcceptorExit(k)
    \/ \E k \in Kinds : Accept(k)
    \/ \E k \in Kinds : CheckPair(k)
    \/ \E k \in Kinds : PopPair(k)
    \/ \E k \in Kinds : Negotiate(k)
    \/ \E k \in Kinds : HostReply(k)
    \/ \E k \in Kinds : ViewerReply(k)
    \/ \E r \in DOMAIN relay : RelayExit(r)
    \/ \E r \in DOMAIN relay : RelayRecv(r)
    \/ \E r \in DOMAIN relay : RelayRemove(r)
    \/ \E t \in Threads : CleanupStream(t)
    \/ ShutdownBegin
    \/ ShutdownLock

Spec == Init /\ [][Next]_vars

(***************************************************************************)
(* Connection establishment on its own: the two acceptors from the start   *)
(* of the server, with the relay threads they start not yet running and    *)
(* no shutdown.                                                            *)
(***************************************************************************)
NextConnect ==
    \/ \E k \in Kinds : Accept(k)
    \/ \E k \in Kinds : CheckPair(k)
    \/ \E k \in Kinds : PopPair(k)
    \/ \E k \in Kinds : Negotiate(k)
    \/ \E k \in Kinds : HostReply(k)
    \/ \E k \in Kinds : ViewerReply(k)

SpecConnect == Init /\ [][NextConnect]_vars

(***************************************************************************)
(* Relaying with a late joiner: the server some time after its start.      *)
(* Client 1 sent IdA on both connections and HOST, got HOST_OK, and its    *)
(* two relay threads wait for the first frame.  Client 2 came next and was *)
(* set up too: as a viewer of client 1's stream, or as a host, under an    *)
(* identifier that gives client 1's stream id again (IdB) or another       *)
(* (IdC).  Client 3 is paired, by the audio acceptor since clients connect *)
(* on the video port first, and its handshake is not yet read.  Each of    *)
(* these states is a state of SpecConnect once six connections have been   *)
(* accepted: Init, then client 1's and client 2's pairing and negotiation, *)
(* then client 3's pairing.                                                *)
(***************************************************************************)
Negotiating(k, c, client_id) ==
    [pc |-> "negotiate", sock |-> Sock(k, c), client_id |-> client_id,
     pair |-> None, video_sock |-> Sock("video", c),
     audio_sock |-> Sock("audio", c), stream_id |-> None, response |-> None]

\* active_streams after client 1's HOST negotiation.
FirstStream ==
    RegisterStream(EmptyMap, StreamIdOf(IdA),
                   NewStream(IdA, Sock("video", 1), Sock("audio", 1)))

Established(role2, id2, id3) ==
        /\ server_running = TRUE
        /\ stream_lock = None
        /\ pending_pairs = EmptyMap
        /\ pairObj = EmptyMap
        /\ active_streams =
             IF role2 = "HOST"
             THEN RegisterStream(FirstStream, StreamIdOf(id2),
                                 NewStream(id2, Sock("video", 2),
                                           Sock("audio", 2)))
             ELSE AddViewer(FirstStream, StreamIdOf(IdA), id2,
                            Sock("video", 2), Sock("audio", 2)).streams
        /\ acc = [k \in Kinds |-> IF k = "audio"
                                  THEN Negotiating(k, 3, id3)
                                  ELSE AccIdle("accept")]
        /\ relay = [r \in {Sock(k, c) : k \in Kinds,
                           c \in IF role2 = "HOST" THEN {1, 2} ELSE {1}} |->
                      NewRelay(StreamIdOf(IF ClientOf(r) = 1 THEN IdA
                                          ELSE id2))]
        /\ main = [pc |-> "serving", todo |-> {}, stream_id |-> None]
        /\ accepted = {Sock(k, c) : k \in Kinds, c \in 1..3}
        /\ inserted = accepted
        /\ sentId = [c \in Clients |->
                       IF c = 1 THEN IdA ELSE IF c = 2 THEN id2
                       ELSE IF c = 3 THEN id3 ELSE None]
        /\ closed = {}
        /\ peerDown = {}
        /\ wrote = [s \in Socks |->
                      IF s = Sock("video", 1)
                      THEN <<Reply("HOST_OK", StreamIdOf(IdA), "")>>
                      ELSE IF s = Sock("video", 2)
                      THEN IF role2 = "HOST"
                           THEN <<Reply("HOST_OK", StreamIdOf(id2), "")>>
                           ELSE <<Reply("VIEWER_OK", None, "")>>
                      ELSE <<>>]
        /\ hostSent = [s \in Socks |-> <<>>]
        /\ assignCalls = [i \in ClientIds |->
                            Cardinality({c \in 1..3 : sentId[c] = i})]
        /\ rx = RxIdle
        /\ NoLogin

InitRelay ==
    \E role2 \in {"HOST", "VIEWER"}, id2 \in {IdB, IdC},
       id3 \in ClientIds :
        /\ id2 # id3
        /\ role2 = "VIEWER" => id2 = IdB /\ id3 # IdA
        /\ Established(role2, id2, id3)

NextRelay ==
    \/ \E k \in Kinds : Negotiate(k)
    \/ \E k \in Kinds : HostReply(k)
    \/ \E k \in Kinds : ViewerReply(k)
    \/ \E r \in DOMAIN relay : RelayRecv(r)
    \/ \E r \in DOMAIN relay : RelayRemove(r)
    \/ \E r \in DOMAIN relay : CleanupStream(r)

SpecRelay == InitRelay /\ [][NextRelay]_vars

(***************************************************************************)
(* Shutdown of a server that is relaying: the same start, every thread     *)
(* running, and Ctrl+C arriving at any moment.                             *)
(***************************************************************************)
NextShutdown ==
    \/ \E k \in Kinds : AcceptorExit(k)
    \/ \E k \in Kinds : Negotiate(k)
    \/ \E k \in Kinds : HostReply(k)
    \/ \E k \in Kinds : ViewerReply(k)
    \/ \E r \in DOMAIN relay : RelayExit(r)
    \/ \E r \in DOMAIN relay : RelayRecv(r)
    \/ \E r \in DOMAIN relay : RelayRemove(r)
    \/ \E t \in Threads : CleanupStream(t)
    \/ ShutdownBegin
    \/ ShutdownLock

InitShutdown == Established("VIEWER", IdB, IdC)

SpecShutdown == InitShutdown /\ [][NextShutdown]_vars

\* Every thread that can take a step eventually takes one: the threads are
\* scheduled by the operating system, and none of them waits on another
\* except for stream_lock.
SpecShutdownFair == SpecShutdown /\ WF_vars(NextShutdown)

(***************************************************************************)
(* Properties                                                              *)
(***************************************************************************)
\* The sockets of kind k stored in pending_pairs under identifier i so far.
InsertedFor(i, k) ==
    {s \in inserted : KindOf(s) = k /\ sentId[ClientOf(s)] = i}

\* Identifier i came on exactly one video and one audio connection.
OnePair(i) ==
    /\ Cardinality(InsertedFor(i, "video")) = 1
    /\ Cardinality(InsertedFor(i, "audio")) = 1

\* Acceptor k is still in the pairing step of a connection carrying i.
Pairing(k, i) ==
    acc[k].client_id = i /\ acc[k].pc \in {"check", "pop", "blocked"}

\* C4: pairing atomicity.  For an identifier that came on one video and one
\* audio connection, _assign_client_role has been invoked at most once at
\* every moment, whatever the interleaving of the two acceptors, and exactly
\* once as soon as neither acceptor is in the pairing step for it any more.
C4_PairingAtomicity ==
    \A i \in ClientIds :
        OnePair(i) =>
            /\ assignCalls[i] <= 1
            /\ (\A k \in Kinds : ~Pairing(k, i)) => assignCalls[i] = 1

\* The race of C4 has happened: both connections of i are stored, one
\* acceptor has popped the pair and invoked the negotiator, and the other has
\* seen the pair complete too and is about to pop.
C4_Witness ==
    \E i \in ClientIds, k \in Kinds :
        /\ OnePair(i)
        /\ assignCalls[i] = 1
        /\ acc[k].pc = "pop" /\ acc[k].client_id = i
        /\ acc[OtherKind(k)].pc = "negotiate"
        /\ acc[OtherKind(k)].client_id = i

\* "stream_" followed by the first 8 characters of identifier i, written out.
ExpectedStreamId(i) ==
    <<"s", "t", "r", "e", "a", "m", "_",
      i[1], i[2], i[3], i[4], i[5], i[6], i[7], i[8]>>

RelayRuns(s) == s \in DOMAIN relay /\ relay[s].pc # "done"

\* An acceptor stands in _setup_host between the registration of stream and
\* the start of its two relay threads.
AboutToStart(stream) ==
    \E k \in Kinds :
        /\ acc[k].pc = "host_reply"
        /\ acc[k].video_sock = stream.host.video
        /\ acc[k].audio_sock = stream.host.audio

\* C1: teardown propagation.  Whenever a host connection of a stream in
\* active_streams is closed or its peer gone, a relay thread reading that
\* connection is there (or is being started) to call cleanup_stream for it.
C1_TeardownPropagation ==
    \A sid \in DOMAIN active_streams : \A k \in Kinds :
        ~CanRead(active_streams[sid].host[k]) =>
            \/ RelayRuns(active_streams[sid].host[k])
            \/ AboutToStart(active_streams[sid])

\* C10: no hostless stream.  Every stream in active_streams has a relay
\* thread of its host running, or the acceptor that registered it is about
\* to start them.
C10_NoHostlessStream ==
    \A sid \in DOMAIN active_streams :
        \/ \E k \in Kinds : RelayRuns(active_streams[sid].host[k])
        \/ AboutToStart(active_streams[sid])

\* The last message written to socket s in the next state is new and is m.
Answered(s, m) == wrote'[s] = Append(wrote[s], m)

\* C6: a VIEWER handshake for an absent stream.  The negotiation step that
\* finds the stream absent leaves active_streams as it was, and the reply
\* step that follows writes the framed ERROR "Stream not found" to the video
\* connection, unless the client itself has gone, closes both connections
\* and leaves active_streams as it was.
C6_AbsentStreamRejected ==
    [][\A k \in Kinds :
          /\ acc[k].pc = "negotiate" /\ acc'[k].pc = "viewer_reply"
                /\ acc'[k].response = "ERROR"
             => active_streams' = active_streams
          /\ acc[k].pc = "viewer_reply" /\ acc[k].response = "ERROR"
                /\ acc'[k].pc # "viewer_reply"
             => /\ active_streams' = active_streams
                /\ {acc[k].video_sock, acc[k].audio_sock} \subseteq closed'
                /\ acc[k].video_sock \notin peerDown'
                   => Answered(acc[k].video_sock,
                               Reply("ERROR", None, "Stream not found"))]_vars

\* C8: a failed negotiation is answered.  When _assign_client_role ends
\* without a role although the video connection is open and its peer there
\* (the action is neither HOST nor VIEWER, the JSON is malformed, the read
\* timed out), an ERROR reply is written to the video connection and both
\* connections are closed.
C8_FailureAnswered ==
    [][\A k \in Kinds :
          /\ acc[k].pc = "negotiate"
          /\ acc'[k].pc \in {"accept", "exited"}
          /\ CanRead(acc[k].video_sock)
          /\ acc[k].video_sock \notin peerDown'
          => /\ Len(wrote'[acc[k].video_sock])
                   = Len(wrote[acc[k].video_sock]) + 1
             /\ wrote'[acc[k].video_sock]
                      [Len(wrote'[acc[k].video_sock])].status = "ERROR"
             /\ {acc[k].video_sock, acc[k].audio_sock} \subseteq closed']_vars

\* C5: shutdown force-closes every stream and returns.  Once shutdown() has
\* set the flag, it eventually returns with active_streams empty.
C5_ShutdownReturns ==
    (main.pc = "shutdown_lock")
        ~> (main.pc = "returned" /\ DOMAIN active_streams = {})

\* Relay r reads a frame from its host and makes a write pass over the
\* viewers of its stream in this step.
PassStep(r) ==
    /\ relay[r].pc = "recv"
    /\ hostSent'[r] # hostSent[r]
    /\ stream_lock = None
    /\ relay[r].stream_id \in DOMAIN active_streams

\* Relay r returns from _remove_viewers in this step.
RemoveStep(r) == relay[r].pc = "remove" /\ relay'[r].pc # "remove"

\* The frame relay r read in this step, as length and payload.
FrameRead(r) == hostSent'[r][Len(hostSent'[r])]

\* Socket s got exactly one more message in this step, a frame of the same
\* length and payload as the one relay r read.
GotFrame(s, r) ==
    /\ Len(wrote'[s]) = Len(wrote[s]) + 1
    /\ SubSeq(wrote'[s], 1, Len(wrote[s])) = wrote[s]
    /\ wrote'[s][Len(wrote'[s])].type = "frame"
    /\ wrote'[s][Len(wrote'[s])].size = FrameRead(r).size
    /\ wrote'[s][Len(wrote'[s])].payload = FrameRead(r).payload

\* C2: fault isolation in the fan-out.  In a write pass of a relay of kind
\* k, every viewer in the stream's viewer map either has the frame written
\* to its connection of kind k or is marked for removal, whatever happens to
\* the others; the pass removes no stream and no viewer and the relay stays
\* in its loop.  The removal that follows drops exactly the marked viewers
\* from that stream's map and nothing else, and the relay goes back to
\* reading, so that it never starts a pass with a removal still to do.
C2_FaultIsolation ==
    [][\A r \in DOMAIN relay :
          LET sid == relay[r].stream_id
              k == KindOf(r)
          IN
          /\ PassStep(r) =>
                /\ relay[r].viewers_to_remove = {}
                /\ active_streams' = active_streams
                /\ relay'[r].pc = IF relay'[r].viewers_to_remove = {}
                                  THEN "recv" ELSE "remove"
                /\ relay'[r].viewers_to_remove
                       \subseteq DOMAIN active_streams[sid].viewers
                /\ \A vid \in DOMAIN active_streams[sid].viewers :
                      IF vid \in relay'[r].viewers_to_remove
                      THEN ~CanWrite(active_streams[sid].viewers[vid][k])'
                      ELSE GotFrame(active_streams[sid].viewers[vid][k], r)
          /\ RemoveStep(r) =>
                /\ relay'[r].pc = "recv" /\ relay'[r].viewers_to_remove = {}
                /\ DOMAIN active_streams' = DOMAIN active_streams
                /\ \A x \in DOMAIN active_streams :
                      /\ active_streams'[x].host = active_streams[x].host
                      /\ DOMAIN active_streams'[x].viewers =
                            IF x = sid
                            THEN DOMAIN active_streams[x].viewers
                                     \ relay[r].viewers_to_remove
                            ELSE DOMAIN active_streams[x].viewers
                      /\ \A vid \in DOMAIN active_streams'[x].viewers :
                            active_streams'[x].viewers[vid]
                                = active_streams[x].viewers[vid]]_vars

\* A pass has just failed for one viewer of a stream and written the frame
\* to another viewer of the same stream.
C2_Witness ==
    \E r \in DOMAIN relay :
        /\ relay[r].pc = "remove"
        /\ relay[r].stream_id \in DOMAIN active_streams
        /\ \E v1, v2 \in DOMAIN active_streams[relay[r].stream_id].viewers :
              LET s2 == active_streams[relay[r].stream_id].viewers[v2]
                            [KindOf(r)]
              IN  /\ v1 \in relay[r].viewers_to_remove
                  /\ v2 \notin relay[r].viewers_to_remove
                  /\ wrote[s2] # <<>>
                  /\ wrote[s2][Len(wrote[s2])].type = "frame"
                  /\ wrote[s2][Len(wrote[s2])].src = r
                  /\ wrote[s2][Len(wrote[s2])].seq = Len(hostSent[r])

\* The media frames written to socket s, in order, as length and payload.
RECURSIVE FramesOf(_)
FramesOf(w) ==
    IF w = <<>> THEN <<>>
    ELSE IF Head(w).type = "frame"
         THEN <<[size |-> Head(w).size, payload |-> Head(w).payload]>>
                  \o FramesOf(Tail(w))
         ELSE FramesOf(Tail(w))

\* a is b with some elements left out.
RECURSIVE IsSubsequence(_, _)
IsSubsequence(a, b) ==
    IF a = <<>> THEN TRUE
    ELSE IF b = <<>> THEN FALSE
    ELSE IF Head(a) = Head(b) THEN IsSubsequence(Tail(a), Tail(b))
    ELSE IsSubsequence(a, Tail(b))

\* C3: order preservation.  For every stream, kind and attached viewer, the
\* frames written to the viewer's connection of that kind are, in the same
\* order, frames the stream's host sent on its connection of that kind.
C3_OrderPreserved ==
    \A sid \in DOMAIN active_streams : \A k \in Kinds :
        \A vid \in DOMAIN active_streams[sid].viewers :
            IsSubsequence(FramesOf(wrote[active_streams[sid].viewers[vid][k]]),
                          hostSent[active_streams[sid].host[k]])

\* C9: verbatim relay with provenance.  Every frame written to the
\* connection of kind k of a viewer attached to a stream was read from the
\* connection of kind k of the host recorded for that stream, and has the
\* length and payload it was read with.
C9_VerbatimFromOwnHost ==
    \A sid \in DOMAIN active_streams : \A k \in Kinds :
        \A vid \in DOMAIN active_streams[sid].viewers :
            LET w == wrote[active_streams[sid].viewers[vid][k]] IN
            \A n \in 1..Len(w) :
                w[n].type = "frame" =>
                    /\ w[n].src = active_streams[sid].host[k]
                    /\ w[n].seq \in 1..Len(hostSent[w[n].src])
                    /\ hostSent[w[n].src][w[n].seq] =
                           [size |-> w[n].size, payload |-> w[n].payload]

\* C11: creating a stream fails when the stream id is present.  No step
\* replaces the host recorded under a key of active_streams: as long as the
\* key stays, the host of its Stream record is the one first registered.
C11_NoReplacement ==
    [][\A sid \in DOMAIN active_streams \cap DOMAIN active_streams' :
          active_streams'[sid].host = active_streams[sid].host]_vars

(***************************************************************************)
(* The write pass one sendall at a time.  In SpecRelay the locked block of *)
(* broadcast_media is one step; here the relay thread takes stream_lock,   *)
(* writes to one viewer per step and releases the lock after the last one, *)
(* and every other locked block waits for the lock to be free.             *)
(***************************************************************************)
\* The viewer map relay r iterates in its pass.
PassViewers(r) == active_streams[relay[r].stream_id].viewers

\* The pass of relay r has dealt with viewer vid: its sendall raised, or the
\* frame the relay holds is the last thing written to its socket.
PassDone(r, vid) ==
    \/ vid \in relay[r].viewers_to_remove
    \/ LET w == wrote[PassViewers(r)[vid][KindOf(r)]] IN
       /\ w # <<>>
       /\ w[Len(w)].type = "frame"
       /\ w[Len(w)].src = r
       /\ w[Len(w)].seq = Len(hostSent[r])

\* It is the turn of viewer vid in "for vid, v_info in ...items()": a dict is
\* iterated in the order of insertion, and every viewer inserted before vid
\* has been dealt with.  Viewers join in the order of their client numbers
\* in every behaviour that starts in an Established state, where client 3 is
\* the only pair still to be negotiated; where two pairs are still to be
\* negotiated the order of the client numbers is taken all the same, which
\* makes a difference only when a write does not return.
InTurn(r, vid) ==
    \A v \in DOMAIN PassViewers(r) :
        ClientOf(PassViewers(r)[v].video) < ClientOf(PassViewers(r)[vid].video)
            => PassDone(r, v)

\* receive_data returns a frame, "with self.stream_lock:" is entered and the
\* stream looked up; absent, the block is left at once by break.
PassBegin(r) ==
    /\ UNCHANGED <<rx, loginVars>>
    /\ relay[r].pc = "recv"
    /\ CanRead(r)
    /\ FramesRead < MaxFrames
    /\ stream_lock = None
    /\ LET data == HostFrame(r, Len(hostSent[r]) + 1) IN
       hostSent' = [hostSent EXCEPT ![r] =
                      Append(@, [size |-> Len(data), payload |-> data])]
    /\ IF relay[r].stream_id \in DOMAIN active_streams
       THEN /\ stream_lock' = r
            /\ relay' = [relay EXCEPT ![r].pc = "pass"]
       ELSE /\ relay' = [relay EXCEPT ![r].pc = "cleanup"]
            /\ UNCHANGED stream_lock
    /\ UNCHANGED <<server_running, pending_pairs, pairObj, active_streams, acc,
                   main, accepted, sentId, inserted, closed, peerDown, wrote,
                   assignCalls>>

\* One turn of "for vid, v_info in ...items():": sendall to one viewer, and
\* on socket.error the viewer id is appended to viewers_to_remove.
PassWrite(r) ==
    /\ UNCHANGED <<rx, loginVars>>
    /\ relay[r].pc = "pass"
    /\ \E vid \in DOMAIN PassViewers(r), raised \in BOOLEAN :
         LET s == PassViewers(r)[vid][KindOf(r)]
             frame == hostSent[r][Len(hostSent[r])]
         IN
         /\ ~PassDone(r, vid)
         /\ InTurn(r, vid)
         /\ ~CanWrite(s) => raised
         /\ raised /\ CanWrite(s) => CanFail({s})
         /\ peerDown' = IF raised THEN Failing(s) ELSE peerDown
         /\ IF raised
            THEN /\ relay' = [relay EXCEPT
                                ![r].viewers_to_remove = @ \cup {vid}]
                 /\ UNCHANGED wrote
            ELSE /\ wrote' = [wrote EXCEPT ![s] =
                                Append(@, FrameMsg(frame.size, frame.payload,
                                                   r, Len(hostSent[r])))]
                 /\ UNCHANGED relay
    /\ UNCHANGED <<server_running, stream_lock, pending_pairs, pairObj,
                   active_streams, acc, main, accepted, sentId, inserted,
                   closed, hostSent, assignCalls>>

\* The for loop is over and the with block is left.
PassEnd(r) ==
    /\ UNCHANGED <<rx, loginVars>>
    /\ relay[r].pc = "pass"
    /\ \A vid \in DOMAIN PassViewers(r) : PassDone(r, vid)
    /\ stream_lock' = None
    /\ relay' = [relay EXCEPT
                   ![r].pc = IF relay[r].viewers_to_remove # {}
                             THEN "remove" ELSE LoopTop]
    /\ UNCHANGED <<server_running, pending_pairs, pairObj, active_streams, acc,
                   main, accepted, sentId, inserted, closed, peerDown, wrote,
                   hostSent, assignCalls>>

NextLock ==
    \/ \E k \in Kinds : stream_lock = None /\ Negotiate(k)
    \/ \E k \in Kinds : HostReply(k)
    \/ \E k \in Kinds : ViewerReply(k)
    \/ \E r \in DOMAIN relay : RelayRecv(r) /\ hostSent' = hostSent
    \/ \E r \in DOMAIN relay : PassBegin(r)
    \/ \E r \in DOMAIN relay : PassWrite(r)
    \/ \E r \in DOMAIN relay : PassEnd(r)
    \/ \E r \in DOMAIN relay : RelayRemove(r)
    \/ \E r \in DOMAIN relay : CleanupStream(r)

SpecLock == InitRelay /\ [][NextLock]_vars

\* C12: registry mutual exclusion.  While a relay thread is inside its write
\* pass no step changes active_streams, and every step that changes
\* active_streams begins and ends with stream_lock free: the whole mutation
\* lies before or after any pass.
C12_RegistryExclusion ==
    [][/\ (\E r \in DOMAIN relay : relay[r].pc = "pass")
             => active_streams' = active_streams
       /\ active_streams' # active_streams
             => stream_lock = None /\ stream_lock' = None]_vars

\* A relay is in the middle of a pass, one viewer written and another not
\* yet, while another thread stands before a locked block that changes the
\* registry.
C12_Witness ==
    \E r \in DOMAIN relay :
        /\ relay[r].pc = "pass"
        /\ \E v1, v2 \in DOMAIN PassViewers(r) :
              PassDone(r, v1) /\ ~PassDone(r, v2)
        /\ \/ \E r2 \in DOMAIN relay : relay[r2].pc \in {"remove", "cleanup"}
           \/ \E k \in Kinds : acc[k].pc = "negotiate"

(***************************************************************************)
(* A stream with a viewer and a late pair whose identifier shares its      *)
(* first IdPrefixLen characters with the host's: client 1 hosts under IdA, *)
(* client 2 views it under IdC, and client 3, paired under IdB, is about   *)
(* to send its handshake.                                                  *)
(***************************************************************************)
InitSupersede == Established("VIEWER", IdC, IdB)

SpecSupersede == InitSupersede /\ [][NextRelay]_vars

\* The sockets of the viewers of a Stream record.
ViewerSocks(stream) ==
    {stream.viewers[vid][k] : vid \in DOMAIN stream.viewers, k \in Kinds}

\* C13: viewers cannot outlive their stream.  Whenever the record under a
\* stream id leaves active_streams, torn down or replaced by the record of
\* another host, every socket of its viewers is closed by the server after
\* the step; and a viewer enters only the map of a stream that is present.
C13_ViewersClosedWithStream ==
    [][/\ \A sid \in DOMAIN active_streams :
             (\/ sid \notin DOMAIN active_streams'
              \/ active_streams'[sid].host # active_streams[sid].host)
                => ViewerSocks(active_streams[sid]) \subseteq closed'
       /\ \A sid \in DOMAIN active_streams' :
             DOMAIN active_streams'[sid].viewers # {}
                => sid \in DOMAIN active_streams]_vars

(***************************************************************************)
(* receive_data byte by byte: src/protocol_recv.py                         *)
(*                                                                         *)
(* rx.wire is what the peer has written on the socket and the server has   *)
(* not read yet, rx.closes tells whether the peer closes after it.  Each   *)
(* recv(n) returns any non-empty prefix of at most n bytes of the wire,    *)
(* b'' once the wire is empty and the peer has closed, or raises.          *)
(***************************************************************************)
\* The payload of n bytes the peers of the model send.
PayloadOf(n) == [i \in 1..n |-> i]

\* struct.pack("I", n): four bytes, lowest first.
Pack(n) == [i \in 1..4 |-> (n \div (256 ^ (i - 1))) % 256]

\* struct.unpack("I", b)[0] of four bytes.
Unpack(b) == b[1] + 256 * b[2] + 65536 * b[3] + 16777216 * b[4]

\* sendall(struct.pack("I", len(data)) + data)
WriteFrame(data) == Pack(Len(data)) \o data

RECURSIVE WriteFrames(_)
WriteFrames(payloads) ==
    IF payloads = <<>> THEN <<>>
    ELSE WriteFrame(Head(payloads)) \o WriteFrames(Tail(payloads))

\* The peer's sequences of payloads.
PayloadSeqs ==
    UNION {[1..n -> {PayloadOf(m) : m \in 0..MaxPayload}] : n \in 1..MaxFrames}

\* A bytes object as the second component of the returned tuple; None is <<>>.
Some(data) == <<data>>

\* return payload_size, data
Result(payload_size, data) == [payload_size |-> payload_size, data |-> data]

\* return 0, None
Disconnected == Result(0, None)

\* A mid-payload return that hands back the bytes read so far.
PartialPayload(data) == Result(Len(data), Some(data))

\* if not chunk: return 0, None
LostPayload(data) == Disconnected

\* except (socket.error, struct.error, ConnectionResetError)
Caught(exc) == exc \in {"socket.error", "struct.error", "ConnectionResetError"}

\* What a recv call can raise.
RecvErrors == {"socket.error", "ConnectionResetError"}

\* What client_socket.recv(n) can return.
RecvChunks(n) ==
    {SubSeq(rx.wire, 1, m) :
        m \in 1..(IF n < Len(rx.wire) THEN n ELSE Len(rx.wire))}
        \cup (IF rx.wire = <<>> /\ rx.closes THEN {<<>>} ELSE {})

\* The rest of the wire after chunk was read.
Rest(chunk) == SubSeq(rx.wire, Len(chunk) + 1, Len(rx.wire))

\* The call leaves through an exception: into the except clause, or out of
\* receive_data.
Raise(exc, call) ==
    IF Caught(exc)
    THEN [call EXCEPT !.pc = "done", !.result = Disconnected]
    ELSE [call EXCEPT !.pc = "raised"]

\* A call of receive_data on the wire as it stands.
NewCall(wire, closes, errs) ==
    [pc |-> "header", wire |-> wire, closes |-> closes, start |-> wire,
     size_prefix |-> <<>>, payload_size |-> 0, data |-> <<>>,
     result |-> None, errs |-> errs, faulted |-> FALSE]

serverVars == <<server_running, stream_lock, pending_pairs, pairObj,
                active_streams, acc, relay, main, accepted, sentId, inserted,
                closed, peerDown, wrote, hostSent, assignCalls>>

\* size_prefix = client_socket.recv(4); if not size_prefix: return 0, None
RecvHeader ==
    /\ rx.pc = "header"
    /\ \/ \E exc \in RecvErrors :
            /\ rx.errs < MaxFaults
            /\ rx' = Raise(exc, [rx EXCEPT !.errs = @ + 1, !.faulted = TRUE])
       \/ \E chunk \in RecvChunks(4) :
            rx' = IF chunk = <<>>
                  THEN [rx EXCEPT !.pc = "done", !.result = Disconnected]
                  ELSE [rx EXCEPT !.pc = "unpack", !.size_prefix = chunk,
                                  !.wire = Rest(chunk)]
    /\ UNCHANGED <<serverVars, loginVars>>

\* payload_size = struct.unpack("I", size_prefix)[0]; data = b''
UnpackHeader ==
    /\ rx.pc = "unpack"
    /\ rx' = IF Len(rx.size_prefix) = 4
             THEN [rx EXCEPT !.pc = "payload",
                             !.payload_size = Unpack(rx.size_prefix),
                             !.data = <<>>]
             ELSE Raise("struct.error", rx)
    /\ UNCHANGED <<serverVars, loginVars>>

\* One test of "while len(data) < payload_size:" and the turn or the return
\* that follows it.
RecvPayload ==
    /\ rx.pc = "payload"
    /\ IF Len(rx.data) < rx.payload_size
       THEN \/ \E exc \in RecvErrors :
                 /\ rx.errs < MaxFaults
                 /\ rx' = Raise(exc, [rx EXCEPT !.errs = @ + 1,
                                                !.faulted = TRUE])
            \/ \E chunk \in RecvChunks(rx.payload_size - Len(rx.data)) :
                 rx' = IF chunk = <<>>
                       THEN [rx EXCEPT !.pc = "done",
                                       !.result = LostPayload(rx.data)]
                       ELSE [rx EXCEPT !.data = @ \o chunk,
                                       !.wire = Rest(chunk)]
       ELSE rx' = [rx EXCEPT !.pc = "done",
                             !.result = Result(rx.payload_size,
                                               Some(rx.data))]
    /\ UNCHANGED <<serverVars, loginVars>>

\* broadcast_media after receive_data returned: "if data_payload is None:
\* break", else round the while loop to the next call.
RelayLoop ==
    /\ rx.pc = "done"
    /\ rx' = IF rx.result.data = None
             THEN [rx EXCEPT !.pc = "break"]
             ELSE NewCall(rx.wire, rx.closes, rx.errs)
    /\ UNCHANGED <<serverVars, loginVars>>

\* A peer that writes whole frames and may close anywhere, in the middle of
\* a frame too.
InitRecv ==
    /\ server_running = TRUE
    /\ stream_lock = None
    /\ pending_pairs = EmptyMap
    /\ pairObj = EmptyMap
    /\ active_streams = EmptyMap
    /\ acc = [k \in Kinds |-> AccIdle("accept")]
    /\ relay = EmptyMap
    /\ main = [pc |-> "serving", todo |-> {}, stream_id |-> None]
    /\ accepted = {}
    /\ sentId = [c \in Clients |-> None]
    /\ inserted = {}
    /\ closed = {}
    /\ peerDown = {}
    /\ wrote = [s \in Socks |-> <<>>]
    /\ hostSent = [s \in Socks |-> <<>>]
    /\ assignCalls = [i \in ClientIds |-> 0]
    /\ NoLogin
    /\ \E payloads \in PayloadSeqs, closes \in BOOLEAN :
         LET bytes == WriteFrames(payloads) IN
         \E cut \in 0..Len(bytes) :
            /\ ~closes => cut = Len(bytes)
            /\ rx = NewCall(SubSeq(bytes, 1, cut), closes, 0)

NextRecv ==
    \/ RecvHeader
    \/ UnpackHeader
    \/ RecvPayload
    \/ RelayLoop

SpecRecv == InitRecv /\ [][NextRecv]_vars

\* The stream a call started on begins with a whole frame, and its payload.
WholeFrame(start) ==
    /\ Len(start) >= 4
    /\ Len(start) >= 4 + Unpack(SubSeq(start, 1, 4))

FirstPayload(start) == SubSeq(start, 5, 4 + Unpack(SubSeq(start, 1, 4)))

\* C14: frame reading tolerates partial reads.  When the peer does not close
\* and the stream begins with a whole frame, a call of receive_data that met
\* no socket error returns the payload of that frame and its length, however
\* the bytes were split across recv calls.
C14_PartialReadsTolerated ==
    (rx.pc = "done" /\ ~rx.closes /\ ~rx.faulted /\ WholeFrame(rx.start))
        => rx.result = Result(Len(FirstPayload(rx.start)),
                              Some(FirstPayload(rx.start)))

\* The same with the header in one piece: only the payload is split.
C14_PayloadSplitTolerated ==
    (rx.pc = "done" /\ ~rx.closes /\ ~rx.faulted /\ WholeFrame(rx.start)
        /\ Len(rx.size_prefix) = 4)
        => rx.result = Result(Len(FirstPayload(rx.start)),
                              Some(FirstPayload(rx.start)))

\* C15: receive_data reports disconnection.  A call that ended has returned,
\* no exception left it; after a socket error, and whenever the stream it
\* started on does not hold a whole frame (the peer closed before any header
\* byte, in the header or in the middle of the payload), the payload returned
\* is None with size 0; a payload that is returned is the whole payload of
\* the frame, never a part of it.  After None the relay leaves its loop and
\* never reads the socket again.
C15_DisconnectReported ==
    /\ [](/\ rx.pc # "raised"
          /\ rx.pc \in {"done", "break"} =>
               /\ (rx.faulted \/ ~WholeFrame(rx.start))
                     => rx.result = Disconnected
               /\ rx.result.data # None
                     => rx.result = Result(Len(FirstPayload(rx.start)),
                                           Some(FirstPayload(rx.start))))
    /\ [][/\ (rx.pc = "done" /\ rx.result.data = None)
                => rx'.pc = "break" /\ rx'.wire = rx.wire
          /\ rx.pc = "break" => rx' = rx]_vars

\* The peer closed in the middle of a payload: part of it was read, None was
\* returned and the relay left its loop.
C15_Witness ==
    /\ rx.pc = "break"
    /\ rx.closes
    /\ Len(rx.start) >= 4
    /\ ~WholeFrame(rx.start)
    /\ rx.data # <<>>
    /\ rx.result = Disconnected

\* C16: protocol step order on a viewer's connections.  Whenever a media
\* frame has been written to a socket of a client, the first thing written
\* on that client's video socket is a handshake reply, VIEWER_OK: no frame
\* precedes the reply on either connection.
C16_FramesAfterViewerOk ==
    \A c \in Clients :
        (\E k \in Kinds : \E i \in 1..Len(wrote[Sock(k, c)]) :
            wrote[Sock(k, c)][i].type = "frame")
        => /\ wrote[Sock("video", c)] # <<>>
           /\ wrote[Sock("video", c)][1].type = "reply"
           /\ wrote[Sock("video", c)][1].status = "VIEWER_OK"

(***************************************************************************)
(* A stalled viewer.  client_sock.settimeout(None) leaves every accepted   *)
(* socket blocking without a timeout, so sendall to a peer that stays      *)
(* connected but reads nothing does not return once the buffers are full.  *)
(* In SpecStall the video connection of the viewer, client 2, is in that   *)
(* condition: no write to it completes and none raises.                    *)
(***************************************************************************)
Stalled == {Sock("video", 2)}

\* sendall returned or raised: it was not a write to a stalled socket.
Returned ==
    \A s \in Stalled :
        wrote'[s] = wrote[s] /\ (s \in peerDown' <=> s \in peerDown)

InitStall == Established("VIEWER", IdB, IdC)

NextStall ==
    \/ \E k \in Kinds : stream_lock = None /\ Negotiate(k)
    \/ \E k \in Kinds : HostReply(k)
    \/ \E k \in Kinds : ViewerReply(k)
    \/ \E r \in DOMAIN relay : RelayRecv(r) /\ hostSent' = hostSent
    \/ \E r \in DOMAIN relay : PassBegin(r)
    \/ \E r \in DOMAIN relay : PassWrite(r) /\ Returned
    \/ \E r \in DOMAIN relay : PassEnd(r)
    \/ \E r \in DOMAIN relay : RelayRemove(r)
    \/ \E r \in DOMAIN relay : CleanupStream(r)

SpecStall == InitStall /\ [][NextStall]_vars

\* Every thread that can take a step eventually takes one.
SpecStallFair == SpecStall /\ WF_vars(NextStall)

\* C17: a stalled viewer does not block the relay indefinitely.  A relay
\* thread that is inside its write pass eventually leaves it, to _remove_viewers
\* or back to read the host's next frame.
C17_PassEnds ==
    \A r \in Socks :
        (r \in DOMAIN relay /\ relay[r].pc = "pass")
            ~> (r \in DOMAIN relay /\ relay[r].pc # "pass")

\* C18: fault containment across clients and streams.  The stall of one
\* viewer does not keep the other clients from making progress: a pair that
\* waits in the Role Negotiator, to host a stream of its own or to join one,
\* is eventually served.
C18_OthersProgress ==
    \A k \in Kinds :
        (acc[k].pc = "negotiate") ~> (acc[k].pc # "negotiate")

\* No acceptor is between the insertion of a connection and the end of its
\* pairing step.
NoPairingInProgress ==
    \A k \in Kinds : acc[k].pc \notin {"check", "pop", "blocked"}

\* C19: pair hand-off.  An entry of pending_pairs that holds one kind only
\* stays pending: no step removes it from pending_pairs.
C19_LoneEntryStays ==
    [][\A i \in DOMAIN pending_pairs :
          ~PairComplete(pairObj[pending_pairs[i]])
             => i \in DOMAIN pending_pairs']_vars

\* The rest of the hand-off rule: when no pairing operation is in progress no
\* entry of pending_pairs holds both kinds, and a connection that is the only
\* one ever inserted for its identifier is pending under it, open, with
\* nothing written to it.
PairHandOffAtRest ==
    NoPairingInProgress =>
        /\ \A i \in DOMAIN pending_pairs :
              ~PairComplete(pairObj[pending_pairs[i]])
        /\ \A i \in ClientIds, k \in Kinds, s \in inserted :
              (InsertedFor(i, k) = {s} /\ InsertedFor(i, OtherKind(k)) = {})
                 => /\ i \in DOMAIN pending_pairs
                    /\ pairObj[pending_pairs[i]][k] = s
                    /\ s \notin closed
                    /\ wrote[s] = <<>>

\* C20: an identify step that does not yield exactly IdLen characters ends
\* in close and never in pending_pairs.  A connection is inserted only in the
\* step that accepted it, only under an identifier of IdLen characters, and
\* then stands in pending_pairs under that identifier; a connection accepted
\* and not inserted is closed in the same step, unless its thread waits for
\* the lock with a valid identifier in hand.
C20_InvalidIdClosed ==
    [][/\ inserted' \ inserted \subseteq accepted' \ accepted
       /\ \A s \in accepted' \ accepted :
             LET a == acc'[KindOf(s)] IN
             /\ s \in inserted' =>
                   /\ Len(a.client_id) = IdLen
                   /\ a.client_id \in DOMAIN pending_pairs'
                   /\ pairObj'[pending_pairs'[a.client_id]][KindOf(s)] = s
                   /\ s \notin closed'
             /\ s \notin inserted' =>
                   \/ s \in closed'
                   \/ a.pc = "blocked" /\ Len(a.client_id) = IdLen]_vars

\* A connection was accepted and closed without ever being inserted, and its
\* client has no valid identifier on record, while another connection is
\* pending under a valid one.
C20_Witness ==
    \E s \in accepted :
        /\ s \in closed
        /\ s \notin inserted
        /\ sentId[ClientOf(s)] = None
        /\ \E i \in DOMAIN pending_pairs : Len(i) = IdLen

\* C21: a malformed or missing identifier closes only that connection.  A
\* step that accepts a connection and does not insert it closes that
\* connection and nothing else, and leaves pending_pairs, the dicts it refers
\* to and the inserted connections as they were; no key of pending_pairs is
\* anything but an identifier of IdLen characters.
C21_OnlyThatConnection ==
    [][/\ \A s \in accepted' \ accepted :
             (s \notin inserted' /\ acc'[KindOf(s)].pc # "blocked")
                => /\ closed' = closed \cup {s}
                   /\ pending_pairs' = pending_pairs
                   /\ pairObj' = pairObj
                   /\ inserted' = inserted
       /\ \A i \in DOMAIN pending_pairs' : Len(i) = IdLen]_vars

\* A connection of one kind is pending and open while a connection of the
\* other kind, from a client that never sent a valid identifier, has been
\* closed without being inserted.
C21_Witness ==
    \E s \in accepted, i \in DOMAIN pending_pairs :
        LET t == pairObj[pending_pairs[i]][OtherKind(KindOf(s))] IN
        /\ s \in closed
        /\ s \notin inserted
        /\ sentId[ClientOf(s)] = None
        /\ t # None
        /\ t \notin closed
        /\ acc[KindOf(s)].pc = "accept"

\* Relay r holds a frame it still has to write to viewer vid, whose
\* connection of that kind takes writes.
FrameDue(r, vid) ==
    /\ r \in DOMAIN relay
    /\ relay[r].pc = "pass"
    /\ vid \in DOMAIN PassViewers(r)
    /\ PassViewers(r)[vid][KindOf(r)] \notin Stalled
    /\ ~PassDone(r, vid)

\* The frame relay r holds has been written to viewer vid, or the write to
\* vid has raised.
FrameDealt(r, vid) ==
    /\ r \in DOMAIN relay
    /\ relay[r].pc = "pass"
    /\ vid \in DOMAIN PassViewers(r)
    /\ PassDone(r, vid)

\* C22: delivery.  A frame read from a host's connection of one kind while
\* its stream is in active_streams is eventually written to the same-kind
\* connection of every viewer that is in the viewer map in that pass and
\* whose connection takes writes, unless that write raises.
C22_Delivery ==
    \A r \in Socks, vid \in ClientIds :
        FrameDue(r, vid) ~> FrameDealt(r, vid)

\* The relay thread of the other kind on the same host.
Sibling(r) == Sock(OtherKind(KindOf(r)), ClientOf(r))

\* Relay r returns from cleanup_stream in this step.
CleanupStep(r) == relay[r].pc = "cleanup" /\ relay'[r].pc = "done"

\* C23: joint teardown is idempotent.  The cleanup_stream call of a relay
\* thread whose sibling has already returned from its own changes nothing:
\* it removes no stream and closes no socket.
C23_SecondCleanupNoOp ==
    [][\A r \in DOMAIN relay :
          (CleanupStep(r) /\ relay[Sibling(r)].pc = "done")
             => active_streams' = active_streams /\ closed' = closed]_vars

(***************************************************************************)
(* The relay loop with the read and the lock apart.  receive_data returns  *)
(* before "with self.stream_lock:" is entered, so a relay thread can hold  *)
(* a frame while other threads take the lock first.                        *)
(***************************************************************************)
\* packet_size, data_payload = receive_data(host_socket) returns a frame.
PassRead(r) ==
    /\ UNCHANGED <<rx, loginVars>>
    /\ relay[r].pc = "recv"
    /\ CanRead(r)
    /\ FramesRead < MaxFrames
    /\ LET data == HostFrame(r, Len(hostSent[r]) + 1) IN
       hostSent' = [hostSent EXCEPT ![r] =
                      Append(@, [size |-> Len(data), payload |-> data])]
    /\ relay' = [relay EXCEPT ![r].pc = "lock"]
    /\ UNCHANGED <<server_running, stream_lock, pending_pairs, pairObj,
                   active_streams, acc, main, accepted, sentId, inserted,
                   closed, peerDown, wrote, assignCalls>>

\* "with self.stream_lock:" is entered and the stream looked up by its id;
\* absent, the block is left at once by break.
PassLock(r) ==
    /\ UNCHANGED <<rx, loginVars>>
    /\ relay[r].pc = "lock"
    /\ stream_lock = None
    /\ IF relay[r].stream_id \in DOMAIN active_streams
       THEN /\ stream_lock' = r
            /\ relay' = [relay EXCEPT ![r].pc = "pass"]
       ELSE /\ relay' = [relay EXCEPT ![r].pc = "cleanup"]
            /\ UNCHANGED stream_lock
    /\ UNCHANGED <<server_running, pending_pairs, pairObj, active_streams, acc,
                   main, accepted, sentId, inserted, closed, peerDown, wrote,
                   hostSent, assignCalls>>

\* Client 1 hosts under IdA and both its relay threads wait for a frame;
\* the pairs of client 2, under id2, and of client 3, under id3, have been
\* handed over, one by each acceptor, and their handshakes are still to come.
TwoNegotiating(id2, id3) ==
    /\ server_running = TRUE
    /\ stream_lock = None
    /\ pending_pairs = EmptyMap
    /\ pairObj = EmptyMap
    /\ active_streams = FirstStream
    /\ acc = [k \in Kinds |-> IF k = "video" THEN Negotiating(k, 2, id2)
                              ELSE Negotiating(k, 3, id3)]
    /\ relay = [r \in {Sock(k, 1) : k \in Kinds} |->
                  NewRelay(StreamIdOf(IdA))]
    /\ main = [pc |-> "serving", todo |-> {}, stream_id |-> None]
    /\ accepted = {Sock(k, c) : k \in Kinds, c \in 1..3}
    /\ inserted = accepted
    /\ sentId = [c \in Clients |->
                   IF c = 1 THEN IdA ELSE IF c = 2 THEN id2
                   ELSE IF c = 3 THEN id3 ELSE None]
    /\ closed = {}
    /\ peerDown = {}
    /\ wrote = [s \in Socks |->
                  IF s = Sock("video", 1)
                  THEN <<Reply("HOST_OK", StreamIdOf(IdA), "")>>
                  ELSE <<>>]
    /\ hostSent = [s \in Socks |-> <<>>]
    /\ assignCalls = [i \in ClientIds |->
                        Cardinality({c \in 1..3 : sentId[c] = i})]
    /\ rx = RxIdle
    /\ NoLogin

InitTeardown == TwoNegotiating(IdB, IdC)

NextTeardown ==
    \/ \E k \in Kinds : stream_lock = None /\ Negotiate(k)
    \/ \E k \in Kinds : HostReply(k)
    \/ \E k \in Kinds : ViewerReply(k)
    \/ \E r \in DOMAIN relay : RelayRecv(r) /\ hostSent' = hostSent
    \/ \E r \in DOMAIN relay : PassRead(r)
    \/ \E r \in DOMAIN relay : PassLock(r)
    \/ \E r \in DOMAIN relay : PassWrite(r)
    \/ \E r \in DOMAIN relay : PassEnd(r)
    \/ \E r \in DOMAIN relay : RelayRemove(r)
    \/ \E r \in DOMAIN relay : CleanupStream(r)

SpecTeardown == InitTeardown /\ [][NextTeardown]_vars

\* The stream of host socket r has been torn down: a relay thread of that
\* host has returned from cleanup_stream and the host's sockets are closed.
TornDown(r) ==
    /\ r \in closed
    /\ \E k \in Kinds :
          LET t == Sock(k, ClientOf(r)) IN
          t \in DOMAIN relay /\ relay[t].pc = "done"

\* C24: Torn Down is terminal.  Once the stream of a host has been torn
\* down, no frame read from a connection of that host is written to any
\* socket.
C24_TornDownTerminal ==
    [][\A r \in DOMAIN relay :
          TornDown(r) =>
             \A s \in Socks :
                wrote'[s] # wrote[s]
                   => wrote'[s][Len(wrote'[s])].src # r]_vars

\* Relay thread r is in its loop.
InLoop(r) == relay[r].pc \notin {"cleanup", "done"}

\* C25: at most one live relay task per stream id and media kind.  No two
\* relay threads of the same kind that are in their loops have the same
\* stream_id.
C25_OneRelayPerKind ==
    \A r1, r2 \in DOMAIN relay :
        (/\ InLoop(r1) /\ InLoop(r2)
         /\ KindOf(r1) = KindOf(r2)
         /\ relay[r1].stream_id = relay[r2].stream_id)
            => r1 = r2

(***************************************************************************)
(* Connection establishment with a shutdown: the two acceptors from the    *)
(* start of the server, the relay threads they start, which here wait on   *)
(* silent hosts, and the main thread, in which KeyboardInterrupt can end   *)
(* the wait of start() at any moment.  An acceptor that stands at "accept" *)
(* after the flag is cleared is either at its loop test, and exits, or was *)
(* already blocked inside sock.accept(), which shutdown() does not wake:   *)
(* the listening sockets are not closed.                                   *)
(***************************************************************************)
NextStop ==
    \/ \E k \in Kinds : AcceptorExit(k)
    \/ \E k \in Kinds : Accept(k)
    \/ \E k \in Kinds : CheckPair(k)
    \/ \E k \in Kinds : PopPair(k)
    \/ \E k \in Kinds : Negotiate(k)
    \/ \E k \in Kinds : HostReply(k)
    \/ \E k \in Kinds : ViewerReply(k)
    \/ \E r \in DOMAIN relay : RelayExit(r)
    \/ \E t \in Threads : CleanupStream(t)
    \/ ShutdownBegin
    \/ ShutdownLock

SpecStop == Init /\ [][NextStop]_vars

\* The viewer records in all streams, as pairs of stream id and viewer id.
ViewerRecords ==
    UNION {{<<sid, vid>> : vid \in DOMAIN active_streams[sid].viewers} :
              sid \in DOMAIN active_streams}

\* C26: acceptors stop at shutdown.  Once server_running is False no
\* connection is accepted, and no pending entry, viewer record or Stream is
\* created.
C26_NothingNewAfterShutdown ==
    [][~server_running =>
          /\ accepted' = accepted
          /\ inserted' = inserted
          /\ DOMAIN pending_pairs' \subseteq DOMAIN pending_pairs
          /\ DOMAIN active_streams' \subseteq DOMAIN active_streams
          /\ ViewerRecords' \subseteq ViewerRecords]_vars

AcceptRaises(k) ==
    /\ UNCHANGED <<rx, loginVars>>
    /\ acc[k].pc = "accept"
    /\ acc' = [acc EXCEPT ![k].pc = "exited"]
    /\ UNCHANGED <<server_running, stream_lock, pending_pairs, pairObj,
                   active_streams, relay, main, accepted, sentId, inserted,
                   closed, peerDown, wrote, hostSent, assignCalls>>

NextAcceptFault ==
    \/ NextStop
    \/ \E k \in Kinds : AcceptRaises(k)

SpecAcceptFault == Init /\ [][NextAcceptFault]_vars

\* C28: an accept failure does not end the acceptor.  The loop of a
\* Connection Acceptor is left only when the server is shutting down: no
\* acceptor goes from accepting to exited while server_running is True.
C28_AcceptorSurvives ==
    [][\A k \in Kinds :
          (acc[k].pc = "accept" /\ acc'[k].pc = "exited")
             => ~server_running]_vars

\* C29: no single-threaded bottleneck in connection establishment.  While a
\* pair is waiting in the Role Negotiator for its handshake message, a
\* connection of another client that arrives on the port of the same kind
\* can be accepted.
C29_AcceptWhileNegotiating ==
    \A k \in Kinds :
        (acc[k].pc = "negotiate" /\ Arrivals(k) # {}) => ENABLED Accept(k)

\* Acceptor k makes the test "video" in pair and "audio" in pair in this
\* step.
PairTestStep(k) == acc[k].pc = "check" /\ acc'[k].pc # "check"

\* C30: lock discipline.  The test whether a pending entry holds both kinds
\* is made with stream_lock held by the testing thread, so never in a step
\* taken while another thread holds the lock.
C30_PairTestLocked ==
    [][\A k \in Kinds : PairTestStep(k) => stream_lock = None]_vars

BindAndStart(k) ==
    /\ UNCHANGED <<rx, loginVars>>
    /\ main.pc = IF k = "video" THEN "bind_video" ELSE "bind_audio"
    /\ \E bound \in BOOLEAN :
         IF bound
         THEN /\ main' = [main EXCEPT !.pc = IF k = "video" THEN "bind_audio"
                                             ELSE "serving"]
              /\ acc' = [acc EXCEPT ![k].pc = "accept"]
              /\ UNCHANGED server_running
         ELSE /\ main' = [main EXCEPT !.pc = "shutdown_lock"]
              /\ server_running' = FALSE
              /\ UNCHANGED acc
    /\ UNCHANGED <<stream_lock, pending_pairs, pairObj, active_streams, relay,
                   accepted, sentId, inserted, closed, peerDown, wrote,
                   hostSent, assignCalls>>

\* self._create_listening_socket(port) for kind k.  When sock.bind raises
\* OSError the rest of the try block is skipped, the except clause logs, and
\* the finally clause enters shutdown(), whose first statement clears
\* server_running.
BindPort(k) ==
    /\ UNCHANGED <<rx, loginVars>>
    /\ main.pc = IF k = "video" THEN "bind_video" ELSE "bind_audio"
    /\ \E bound \in BOOLEAN :
         IF bound
         THEN /\ main' = [main EXCEPT !.pc = IF k = "video" THEN "bind_audio"
                                             ELSE "start_threads"]
              /\ UNCHANGED server_running
         ELSE /\ main' = [main EXCEPT !.pc = "shutdown_lock"]
              /\ server_running' = FALSE
    /\ UNCHANGED <<stream_lock, pending_pairs, pairObj, active_streams, acc,
                   relay, accepted, sentId, inserted, closed, peerDown, wrote,
                   hostSent, assignCalls>>

\* The two threading.Thread(target=self._connection_loop, ...).start()
\* calls; the main thread then waits in "while self.server_running".
StartThreads ==
    /\ UNCHANGED <<rx, loginVars>>
    /\ main.pc = "start_threads"
    /\ main' = [main EXCEPT !.pc = "serving"]
    /\ acc' = [k \in Kinds |-> AccIdle("accept")]
    /\ UNCHANGED <<server_running, stream_lock, pending_pairs, pairObj,
                   active_streams, relay, accepted, sentId, inserted, closed,
                   peerDown, wrote, hostSent, assignCalls>>

\* The server constructed and start() just called.
InitStart ==
    /\ server_running = TRUE
    /\ stream_lock = None
    /\ pending_pairs = EmptyMap
    /\ pairObj = EmptyMap
    /\ active_streams = EmptyMap
    /\ acc = [k \in Kinds |-> AccIdle("unstarted")]
    /\ relay = EmptyMap
    /\ main = [pc |-> "bind_video", todo |-> {}, stream_id |-> None]
    /\ accepted = {}
    /\ sentId = [c \in Clients |-> None]
    /\ inserted = {}
    /\ closed = {}
    /\ peerDown = {}
    /\ wrote = [s \in Socks |-> <<>>]
    /\ hostSent = [s \in Socks |-> <<>>]
    /\ assignCalls = [i \in ClientIds |-> 0]
    /\ rx = RxIdle
    /\ NoLogin

NextStart ==
    \/ \E k \in Kinds : BindPort(k)
    \/ StartThreads
    \/ NextStop

SpecStart == InitStart /\ [][NextStart]_vars

\* start() is past its two binds and its thread starts.
PastStartup == main.pc \notin {"bind_video", "bind_audio", "start_threads"}

\* C32: no half-working server after a bind failure.  The acceptor threads
\* are started both or neither; while they are not started no connection is
\* accepted; and when start() has left its startup steps without starting
\* them, it is in shutdown(): server_running is False and the main thread is
\* at the lock of shutdown() or has returned from it.
C32_NoHalfStart ==
    (\E k \in Kinds : acc[k].pc = "unstarted") =>
        /\ \A k \in Kinds : acc[k].pc = "unstarted"
        /\ accepted = {}
        /\ PastStartup =>
              /\ ~server_running
              /\ main.pc \in {"shutdown_lock", "returned"}

\* The audio port could not be bound after the video port was, or the video
\* port could not: shutdown() has returned and no acceptor was ever started.
C32_Witness ==
    /\ main.pc = "returned"
    /\ ~server_running
    /\ \A k \in Kinds : acc[k].pc = "unstarted"
    /\ accepted = {}

\* The sockets of the pairs that _assign_client_role has received and not
\* yet finished with, and the sockets registered as a host's or a viewer's.
HandedOver ==
    UNION {{acc[j].video_sock, acc[j].audio_sock} \ {None} : j \in Kinds}
        \cup UNION {StreamSocks(active_streams[sid]) :
                      sid \in DOMAIN active_streams}

\* C33: the pairing step closes no socket of a handed-over pair.  A step of
\* handle_incoming_connection made by an acceptor that holds no pair itself
\* (the receive of the identifier, the insertion, the pair test, the pop)
\* closes no socket that _assign_client_role has received or that is
\* registered in active_streams.
C33_PairingClosesNoHandedOver ==
    [][\A k \in Kinds :
          acc[k].video_sock = None /\ acc'[k] # acc[k]
             => (closed' \ closed) \cap HandedOver = {}]_vars

(***************************************************************************)
(* Two negotiations at once.  Client 1 connected its video socket, client  *)
(* 2 both its sockets, client 1 its audio socket: the video acceptor handed*)
(* over the pair of client 2 and the audio acceptor the pair of client 1.  *)
(* Their identifiers IdA and IdB give the same stream id.  No stream       *)
(* exists yet.                                                             *)
(***************************************************************************)
InitCollide ==
    /\ server_running = TRUE
    /\ stream_lock = None
    /\ pending_pairs = EmptyMap
    /\ pairObj = EmptyMap
    /\ active_streams = EmptyMap
    /\ acc = [k \in Kinds |-> IF k = "video" THEN Negotiating(k, 2, IdB)
                              ELSE Negotiating(k, 1, IdA)]
    /\ relay = EmptyMap
    /\ main = [pc |-> "serving", todo |-> {}, stream_id |-> None]
    /\ accepted = {Sock(k, c) : k \in Kinds, c \in 1..2}
    /\ inserted = accepted
    /\ sentId = [c \in Clients |->
                   IF c = 1 THEN IdA ELSE IF c = 2 THEN IdB ELSE None]
    /\ closed = {}
    /\ peerDown = {}
    /\ wrote = [s \in Socks |-> <<>>]
    /\ hostSent = [s \in Socks |-> <<>>]
    /\ assignCalls = [i \in ClientIds |->
                        Cardinality({c \in 1..2 : sentId[c] = i})]
    /\ rx = RxIdle
    /\ NoLogin

SpecCollide == InitCollide /\ [][NextRelay]_vars

\* The step of _setup_host that writes HOST_OK.
HostOkStep(k) ==
    /\ acc[k].pc = "host_reply"
    /\ wrote'[acc[k].video_sock] # wrote[acc[k].video_sock]

\* A host that received HOST_OK for stream_id and whose connections the
\* server has not closed.
HostsLive(stream_id) ==
    {s \in Socks \ closed :
        \E i \in 1..Len(wrote[s]) :
            wrote[s][i] = Reply("HOST_OK", stream_id, "")}

\* C34: the stream is there when HOST_OK is written.  In the step that
\* writes HOST_OK the stream id named in the reply is a key of active_streams
\* and the record under it has this client as its host; and a VIEWER
\* handshake for the stream id of a host that received HOST_OK and has not
\* been torn down finds the stream and is given VIEWER_OK.
C34_StreamPresentAtHostOk ==
    [][\A k \in Kinds :
          /\ HostOkStep(k) =>
                /\ acc[k].stream_id \in DOMAIN active_streams
                /\ active_streams[acc[k].stream_id].host.id = acc[k].client_id
                /\ active_streams[acc[k].stream_id].host.video
                      = acc[k].video_sock
          /\ acc[k].pc = "negotiate" /\ acc'[k].pc = "viewer_reply"
                /\ HostsLive(acc'[k].stream_id) # {}
             => acc'[k].response = "VIEWER_OK"]_vars

\* The stream a call started on begins with the header of a zero-length
\* frame: struct.pack("I", 0) and no payload.
ZeroFrameFirst(start) == Len(start) >= 4 /\ SubSeq(start, 1, 4) = Pack(0)

\* C35: a zero-length frame is a valid frame.  A call of receive_data that
\* met no socket error on a stream that begins with the header 0 returns
\* size 0 and the empty payload, which is not None, and broadcast_media does
\* not leave its loop on it.
C35_ZeroFrameValid ==
    (rx.pc \in {"done", "break"} /\ ~rx.faulted /\ ZeroFrameFirst(rx.start))
        => /\ rx.result = Result(0, Some(<<>>))
           /\ rx.pc # "break"

\* The same when recv(4) returned the four header bytes at once.
C35_ZeroFrameHeaderWhole ==
    (rx.pc \in {"done", "break"} /\ ~rx.faulted /\ ZeroFrameFirst(rx.start)
        /\ Len(rx.size_prefix) = 4)
        => /\ rx.result = Result(0, Some(<<>>))
           /\ rx.pc # "break"

\* The relay's side of C35: a pass with a frame of length 0 writes a frame of
\* length 0 with the empty payload to every viewer that is not marked for
\* removal, removes no stream and stays in its loop.
C35_ZeroFrameRelayed ==
    [][\A r \in DOMAIN relay :
          PassStep(r) /\ FrameRead(r).size = 0 =>
             /\ FrameRead(r).payload = <<>>
             /\ active_streams' = active_streams
             /\ relay'[r].pc \in {"recv", "remove"}
             /\ \A vid \in DOMAIN active_streams[relay[r].stream_id].viewers :
                   vid \notin relay'[r].viewers_to_remove =>
                      GotFrame(active_streams[relay[r].stream_id]
                                  .viewers[vid][KindOf(r)], r)]_vars

\* Client c was told VIEWER_OK.
ViewerOk(c) ==
    \E i \in 1..Len(wrote[Sock("video", c)]) :
        wrote[Sock("video", c)][i] = Reply("VIEWER_OK", None, "")

\* Viewer c has been removed because a write failed: a sendall on one of its
\* connections raised in a pass, which marked it, and no relay has the
\* removal of its id still to do.
Removed(c) ==
    /\ ViewerOk(c)
    /\ \E k \in Kinds : Sock(k, c) \in peerDown
    /\ \A r \in DOMAIN relay :
          ~(relay[r].pc = "remove"
               /\ sentId[c] \in relay[r].viewers_to_remove)

\* C36: viewer removal is joint across kinds.  A write pass of any relay, of
\* either kind, that starts when a viewer has been removed after a failed
\* write writes nothing to either connection of that viewer.
C36_JointRemoval ==
    [][\A r \in DOMAIN relay, c \in Clients :
          PassStep(r) /\ Removed(c)
             => \A k \in Kinds : wrote'[Sock(k, c)] = wrote[Sock(k, c)]]_vars

\* A viewer's video write failed and it was removed; its audio connection is
\* still good, and the audio relay's later pass gave a frame to another
\* viewer of the stream and none to it.
C36_Witness ==
    \E c \in Clients : \E d \in Clients \ {c} :
        /\ Removed(c)
        /\ Sock("video", c) \in peerDown
        /\ CanWrite(Sock("audio", c))
        /\ \A i \in 1..Len(wrote[Sock("audio", c)]) :
              wrote[Sock("audio", c)][i].type # "frame"
        /\ \E i \in 1..Len(wrote[Sock("audio", d)]) :
              wrote[Sock("audio", d)][i].type = "frame"
        /\ \E sid \in DOMAIN active_streams :
              sentId[d] \in DOMAIN active_streams[sid].viewers

(***************************************************************************)
(* A second pair under a viewer's identifier: client 1 hosts, client 2     *)
(* watches its stream under IdB, and client 3 sent IdB on both its         *)
(* connections too and has been paired; its handshake is still to come.    *)
(* The server takes any 36 characters as an identifier and never checks    *)
(* whether one is in use.                                                  *)
(***************************************************************************)
InitRejoin == Established("VIEWER", IdB, IdB)

SpecRejoin == InitRejoin /\ [][NextRelay]_vars

\* The viewer records of relay r's stream that are deleted in this step.
Deleted(r) ==
    LET sid == relay[r].stream_id IN
    IF sid \notin DOMAIN active_streams THEN {}
    ELSE {active_streams[sid].viewers[vid] :
             vid \in {v \in DOMAIN active_streams[sid].viewers :
                         \/ sid \notin DOMAIN active_streams'
                         \/ v \notin DOMAIN active_streams'[sid].viewers}}

\* C37: deferred removal removes only failed viewers.  Every viewer record
\* that a return from _remove_viewers has deleted is a record whose
\* connection of the relay's kind failed: its socket of that kind is closed
\* or its peer gone.  A record that came under the same client id after the
\* pass, with connections that never failed, is not deleted.
C37_OnlyFailedRemoved ==
    [][\A r \in DOMAIN relay :
          RemoveStep(r) =>
             \A rec \in Deleted(r) : ~CanWrite(rec[KindOf(r)])]_vars

(***************************************************************************)
(* The login server: src/login_server.py.  start_login_server creates the  *)
(* set active_users and the lock active_users_lock and starts one          *)
(* ClientHandler thread per accepted connection; each handler serves one   *)
(* request and closes.  A handler's position:                              *)
(*   new       its connection is not accepted yet                          *)
(*   dispatch  the request is parsed, the if on action is next             *)
(*   locked    inside "with self.lock:", before the membership test        *)
(*   verify    LOGIN, inside the lock, at db_manager.verify_user_login     *)
(*   unlock    at the end of the with block                                *)
(*   send      at self._send_response(response)                            *)
(*   closed    the finally clause has closed the socket                    *)
(***************************************************************************)
\* The usernames of registered users.
Usernames == {"alice", "bob"}

\* request_data.get("username") when the key is missing (None), and when
\* the JSON value is a list or an object, which cannot be a set member.
NoName == ""
Unhashable == "[]"

RequestNames == Usernames \cup {NoName, Unhashable}

\* request_data.get("action"); OTHER is any other value.
Actions == {"LOGIN", "LOGOUT", "REGISTER", "OTHER"}

\* The response strings, as status and what follows the colon.
Response(status, msg) == <<status, msg>>

AlreadyLoggedIn == Response("ERROR", "already logged in")
LoginSuccessful == Response("SUCCESS", "Login successful!")
LoggedOut == Response("SUCCESS", "Logged out successfully.")
NotListed == Response("SUCCESS", "not listed as active")
InvalidAction == Response("ERROR", "Invalid action.")
InvalidFormat == Response("ERROR", "Invalid request format.")
Unexpected == Response("ERROR", "An unexpected server error occurred.")

\* response = f"ERROR:{msg}" with the msg of a verify_user_login that
\* fails: wrong credentials, a missing field, a database error.
LoginRefused == Response("ERROR", "login refused")

\* What register_user leads to.
Registered ==
    {Response("SUCCESS", "registered successfully"),
     Response("ERROR", "not registered")}

\* A ClientHandler whose run() has returned; its locals are gone.
HandlerClosed == [HandlerNew EXCEPT !.pc = "closed"]

\* A ClientHandler thread's name as holder of the lock.
Holder(h) == <<"handler", h>>

\* accept() returns and run() reads and parses the request: a request, bytes
\* that are not JSON, or nothing (the peer closed, or recv raised), in which
\* case the handler closes without a response.  The username of a request
\* that is neither LOGIN nor LOGOUT is not looked at by the model.
Receive(h) ==
    /\ handlers[h].pc = "new"
    /\ \A g \in 1..(h - 1) : handlers[g].pc # "new"
    /\ \/ \E a \in Actions, u \in RequestNames :
            /\ a \notin {"LOGIN", "LOGOUT"} => u = NoName
            /\ handlers' = [handlers EXCEPT ![h].pc = "dispatch",
                                            ![h].action = a,
                                            ![h].username = u]
       \/ handlers' = [handlers EXCEPT ![h].pc = "send",
                                       ![h].response = InvalidFormat]
       \/ handlers' = [handlers EXCEPT ![h] = HandlerClosed]
    /\ UNCHANGED <<active_users, active_users_lock, serverVars, rx>>

\* A handler that enters the block without taking the lock.
AcquireNoLock(h) ==
    /\ handlers[h].pc = "dispatch"
    /\ handlers[h].action \in {"LOGIN", "LOGOUT"}
    /\ handlers' = [handlers EXCEPT ![h].pc = "locked"]
    /\ UNCHANGED <<active_users, active_users_lock, serverVars, rx>>

\* "with self.lock:" of the LOGIN and of the LOGOUT branch.
Acquire(h) ==
    /\ handlers[h].pc = "dispatch"
    /\ handlers[h].action \in {"LOGIN", "LOGOUT"}
    /\ active_users_lock = None
    /\ active_users_lock' = Holder(h)
    /\ handlers' = [handlers EXCEPT ![h].pc = "locked"]
    /\ UNCHANGED <<active_users, serverVars, rx>>

\* The with block is left through an exception: the lock is released and
\* "except Exception" answers.
Raised(h) ==
    /\ active_users_lock' = IF active_users_lock = Holder(h) THEN None
                            ELSE active_users_lock
    /\ handlers' = [handlers EXCEPT ![h].pc = "send",
                                    ![h].response = Unexpected]

\* if username in self.active_users: response = ERROR ... already logged in
LoginCheck(h) ==
    /\ handlers[h].pc = "locked"
    /\ handlers[h].action = "LOGIN"
    /\ IF handlers[h].username = Unhashable
       THEN Raised(h)
       ELSE /\ handlers' =
                 IF handlers[h].username \in active_users
                 THEN [handlers EXCEPT ![h].pc = "unlock",
                                       ![h].response = AlreadyLoggedIn]
                 ELSE [handlers EXCEPT ![h].pc = "verify"]
            /\ UNCHANGED active_users_lock
    /\ UNCHANGED <<active_users, serverVars, rx>>

\* success, msg = db_manager.verify_user_login(username, password), which
\* catches its own exceptions; on success self.active_users.add(username).
LoginVerify(h) ==
    /\ handlers[h].pc = "verify"
    /\ \/ /\ handlers[h].username \in Usernames
          /\ active_users' = active_users \cup {handlers[h].username}
          /\ handlers' = [handlers EXCEPT ![h].pc = "unlock",
                                          ![h].response = LoginSuccessful]
       \/ /\ handlers' = [handlers EXCEPT ![h].pc = "unlock",
                                          ![h].response = LoginRefused]
          /\ UNCHANGED active_users
    /\ UNCHANGED <<active_users_lock, serverVars, rx>>

\* The body of the LOGOUT branch.
Logout(h) ==
    /\ handlers[h].pc = "locked"
    /\ handlers[h].action = "LOGOUT"
    /\ IF handlers[h].username = Unhashable
       THEN Raised(h) /\ UNCHANGED active_users
       ELSE /\ active_users' = active_users \ {handlers[h].username}
            /\ handlers' =
                 [handlers EXCEPT
                    ![h].pc = "unlock",
                    ![h].response = IF handlers[h].username \in active_users
                                    THEN LoggedOut ELSE NotListed]
            /\ UNCHANGED active_users_lock
    /\ UNCHANGED <<serverVars, rx>>

\* The end of the with block.
Release(h) ==
    /\ handlers[h].pc = "unlock"
    /\ active_users_lock' = IF active_users_lock = Holder(h) THEN None
                            ELSE active_users_lock
    /\ handlers' = [handlers EXCEPT ![h].pc = "send"]
    /\ UNCHANGED <<active_users, serverVars, rx>>

\* The REGISTER branch and the else branch, which take no lock.
NoSession(h) ==
    /\ handlers[h].pc = "dispatch"
    /\ handlers[h].action \notin {"LOGIN", "LOGOUT"}
    /\ \E r \in IF handlers[h].action = "REGISTER" THEN Registered
                ELSE {InvalidAction} :
          handlers' = [handlers EXCEPT ![h].pc = "send", ![h].response = r]
    /\ UNCHANGED <<active_users, active_users_lock, serverVars, rx>>

\* self._send_response(response), which logs and swallows a socket.error,
\* and the finally clause that closes the socket; the thread ends.
SendResponse(h) ==
    /\ handlers[h].pc = "send"
    /\ handlers' = [handlers EXCEPT ![h] = HandlerClosed]
    /\ UNCHANGED <<active_users, active_users_lock, serverVars, rx>>

InitLogin ==
    /\ server_running = TRUE
    /\ stream_lock = None
    /\ pending_pairs = EmptyMap
    /\ pairObj = EmptyMap
    /\ active_streams = EmptyMap
    /\ acc = [k \in Kinds |-> AccIdle("accept")]
    /\ relay = EmptyMap
    /\ main = [pc |-> "serving", todo |-> {}, stream_id |-> None]
    /\ accepted = {}
    /\ sentId = [c \in Clients |-> None]
    /\ inserted = {}
    /\ closed = {}
    /\ peerDown = {}
    /\ wrote = [s \in Socks |-> <<>>]
    /\ hostSent = [s \in Socks |-> <<>>]
    /\ assignCalls = [i \in ClientIds |-> 0]
    /\ rx = RxIdle
    /\ NoLogin

NextLogin ==
    \/ \E h \in Handlers : Receive(h)
    \/ \E h \in Handlers : Acquire(h)
    \/ \E h \in Handlers : LoginCheck(h)
    \/ \E h \in Handlers : LoginVerify(h)
    \/ \E h \in Handlers : Logout(h)
    \/ \E h \in Handlers : Release(h)
    \/ \E h \in Handlers : NoSession(h)
    \/ \E h \in Handlers : SendResponse(h)

SpecLogin == InitLogin /\ [][NextLogin]_vars

\* Handler h's LOGIN succeeds in this step: its response becomes SUCCESS.
LoginSucceeds(h) ==
    /\ handlers[h].action = "LOGIN"
    /\ handlers[h].response # LoginSuccessful
    /\ handlers'[h].response = LoginSuccessful

\* Handler h, a LOGIN, makes its membership test in this step.
LoginTested(h) ==
    /\ handlers[h].action = "LOGIN"
    /\ handlers[h].pc = "locked"
    /\ handlers'[h].pc # "locked"

\* Handler h, a LOGOUT with a username that can be a set member, runs its
\* locked block in this step.
LogoutDone(h) ==
    /\ handlers[h].action = "LOGOUT"
    /\ handlers[h].username # Unhashable
    /\ handlers[h].pc = "locked"
    /\ handlers'[h].pc # "locked"

\* C38: the single-session rule of the login service.  Whatever the
\* interleaving of the ClientHandler threads: a LOGIN succeeds only for a
\* username that is not in active_users, and puts it there, so that no
\* second LOGIN for it succeeds while it is in the set; a LOGIN that finds
\* its username in the set gets the ERROR "already logged in" and the set
\* stays as it is; a LOGOUT takes exactly its username out of the set; and
\* the set changes in no other step.  The response a handler leaves the
\* lock with is the one decided under it.
C38_SingleSession ==
    [][/\ \A h \in Handlers :
            /\ LoginSucceeds(h) =>
                  /\ handlers[h].username \notin active_users
                  /\ active_users' = active_users \cup {handlers[h].username}
            /\ LoginTested(h) /\ handlers[h].username \in active_users =>
                  /\ handlers'[h].response = AlreadyLoggedIn
                  /\ handlers'[h].pc = "unlock"
                  /\ active_users' = active_users
            /\ LogoutDone(h) =>
                  active_users' = active_users \ {handlers[h].username}
            /\ handlers[h].pc = "unlock" =>
                  handlers'[h].response = handlers[h].response
       /\ active_users' # active_users =>
             \E h \in Handlers : LoginSucceeds(h) \/ LogoutDone(h)]_vars

\* Three handlers have served the same user and are about to answer: a
\* LOGIN that succeeded, a LOGOUT that found the user in the set, and
\* another LOGIN that succeeded after it.
C38_Witness ==
    \E u \in Usernames :
       \E h1, h2, h3 \in Handlers :
          /\ h1 # h3
          /\ \A h \in {h1, h2, h3} :
                handlers[h].pc = "send" /\ handlers[h].username = u
          /\ handlers[h1].response = LoginSuccessful
          /\ handlers[h2].response = LoggedOut
          /\ handlers[h3].response = LoginSuccessful
          /\ u \in active_users

====
